---- MODULE Spec2Model ----
(***************************************************************************)
(* State-machine model of the income-based investment contract            *)
(* (contracts/investment-income-based): the commission-tier schedule, the *)
(* Wad split of a deposit, the investment lifecycle, the claim scheduler,  *)
(* the validators and the public operations of InvestmentContract.         *)
(***************************************************************************)
EXTENDS Integers, Sequences, FiniteSets, TLC

(***************************************************************************)
(* Program constants.                                                      *)
(***************************************************************************)
LOWER_AMOUNT_FOR_COMMISSION_REDUCTION == 100
LOWER_DIVISOR == 10
UPPER_DIVISOR == 60
AMOUNT_PER_COMMISSION_REDUCTION == 400

\* constants.rs is not among the source files; the values are the ones the
\* specification and the tests use (a 30-day month, 24*60*60 seconds a day).
SECONDS_IN_DAY == 86400
SECONDS_IN_WEEK == 604800
SECONDS_IN_MONTH == 2592000

\* Wad is the 18-decimal fixed-point type of stellar_contract_utils::math::wad.
WAD_DECIMALS == 18

(***************************************************************************)
(* Integer helpers.  Rust's `/` on i128 truncates toward zero.             *)
(***************************************************************************)
TruncDiv(a, b) == IF a >= 0 THEN a \div b ELSE -((-a) \div b)

RECURSIVE Pow10(_)
Pow10(k) == IF k = 0 THEN 1 ELSE 10 * Pow10(k - 1)

Min(a, b) == IF a <= b THEN a ELSE b

(***************************************************************************)
(* Wad values do not fit the model checker's machine integers              *)
(* (10^18 scale, products up to 10^38), so a Wad's raw i128 is kept as its *)
(* sequence of base-1000 limbs, least significant first; the arithmetic     *)
(* below is exact.  Only non-negative values occur: the contract never     *)
(* splits a non-positive deposit.                                          *)
(***************************************************************************)
RECURSIVE Limbs(_)
Limbs(n) == IF n = 0 THEN <<>> ELSE <<n % 1000>> \o Limbs(n \div 1000)

RECURSIVE Value(_)
Value(s) == IF s = <<>> THEN 0 ELSE Head(s) + 1000 * Value(Tail(s))

ShiftUp(s, k) == [i \in 1..k |-> 0] \o s

ShiftDown(s, k) == IF k >= Len(s) THEN <<>> ELSE SubSeq(s, k + 1, Len(s))

\* s - t for s >= t
RECURSIVE SubBorrow(_, _, _)
SubBorrow(s, t, c) ==
    IF s = <<>>
    THEN <<>>
    ELSE LET b == IF t = <<>> THEN 0 ELSE Head(t)
             x == Head(s) - b - c
         IN  <<IF x < 0 THEN x + 1000 ELSE x>>
             \o SubBorrow(Tail(s), IF t = <<>> THEN <<>> ELSE Tail(t),
                          IF x < 0 THEN 1 ELSE 0)

BigSub(s, t) == SubBorrow(s, t, 0)

\* s * m + c for machine integers 0 <= m, c <= 1000
RECURSIVE MulSmall(_, _, _)
MulSmall(s, m, c) ==
    IF s = <<>>
    THEN (IF c = 0 THEN <<>> ELSE <<c>>)
    ELSE LET x == Head(s) * m + c
         IN  <<x % 1000>> \o MulSmall(Tail(s), m, x \div 1000)

\* s + t * m for a limb m: one row of the long multiplication
RECURSIVE AddMul(_, _, _, _)
AddMul(s, t, m, c) ==
    IF s = <<>> /\ t = <<>>
    THEN (IF c = 0 THEN <<>> ELSE <<c>>)
    ELSE LET a == IF s = <<>> THEN 0 ELSE Head(s)
             b == IF t = <<>> THEN 0 ELSE Head(t)
             x == a + b * m + c
         IN  <<x % 1000>> \o AddMul(IF s = <<>> THEN <<>> ELSE Tail(s),
                                    IF t = <<>> THEN <<>> ELSE Tail(t),
                                    m, x \div 1000)

RECURSIVE BigMul(_, _)
BigMul(s, t) ==
    IF t = <<>>
    THEN <<>>
    ELSE AddMul(ShiftUp(BigMul(s, Tail(t)), 1), s, Head(t), 0)

\* quotient and remainder of s by a machine integer m > 0
RECURSIVE BigDivRem(_, _)
BigDivRem(s, m) ==
    IF s = <<>>
    THEN [q |-> <<>>, r |-> 0]
    ELSE LET hi  == BigDivRem(Tail(s), m)
             cur == hi.r * 1000 + Head(s)
         IN  [q |-> <<cur \div m>> \o hi.q, r |-> cur % m]

\* s * 10^k and s / 10^k (truncated)
MulPow10(s, k) ==
    MulSmall(ShiftUp(s, k \div 3), Pow10(k % 3), 0)

DivPow10(s, k) ==
    BigDivRem(ShiftDown(s, k \div 3), Pow10(k % 3)).q

(***************************************************************************)
(* Wad, as balance.rs uses it.                                             *)
(***************************************************************************)
\* Wad::from_token_amount: amount * 10^(18 - decimals)
Wad_from_token_amount(amount, decimals) ==
    MulPow10(Limbs(amount), WAD_DECIMALS - decimals)

\* Wad::from_ratio: (num * 10^18) / den, truncated
Wad_from_ratio(num, den) ==
    BigDivRem(MulPow10(Limbs(num), WAD_DECIMALS), den).q

\* Wad * Wad: (a * b) / 10^18, truncated
Wad_mul(a, b) == DivPow10(BigMul(a, b), WAD_DECIMALS)

\* Wad - Wad
Wad_sub(a, b) == BigSub(a, b)

\* Wad::to_token_amount: raw / 10^(18 - decimals), truncated
Wad_to_token_amount(w, decimals) ==
    Value(DivPow10(w, WAD_DECIMALS - decimals))

(***************************************************************************)
(* balance.rs                                                              *)
(***************************************************************************)
calculate_rate_denominator(amount, decimals) ==
    LET scale_factor == Pow10(decimals)
        token_amount == TruncDiv(amount, scale_factor)
        a == TruncDiv(token_amount - LOWER_AMOUNT_FOR_COMMISSION_REDUCTION,
                      AMOUNT_PER_COMMISSION_REDUCTION)
    IN  IF token_amount <= LOWER_AMOUNT_FOR_COMMISSION_REDUCTION
        THEN LOWER_DIVISOR
        ELSE IF a > UPPER_DIVISOR
             THEN UPPER_DIVISOR
             ELSE LOWER_DIVISOR + a

from_investment(amount, i_rate, decimals) ==
    LET rate_denominator == calculate_rate_denominator(amount, decimals)
        amount_wad       == Wad_from_token_amount(amount, decimals)
        commission_rate  == Wad_from_ratio(i_rate, rate_denominator * 10000)
        reserve_rate     == Wad_from_ratio(5, 100)
        amount_to_commission_wad   == Wad_mul(amount_wad, commission_rate)
        amount_to_reserve_fund_wad == Wad_mul(amount_wad, reserve_rate)
        amount_to_invest_wad ==
            Wad_sub(Wad_sub(amount_wad, amount_to_commission_wad),
                    amount_to_reserve_fund_wad)
    IN  [amount_to_commission   |-> Wad_to_token_amount(amount_to_commission_wad, decimals),
         amount_to_reserve_fund |-> Wad_to_token_amount(amount_to_reserve_fund_wad, decimals),
         amount_to_invest       |-> Wad_to_token_amount(amount_to_invest_wad, decimals)]

get_invested_amount(amounts) ==
    amounts.amount_to_invest + amounts.amount_to_reserve_fund

(***************************************************************************)
(* investment.rs                                                           *)
(***************************************************************************)
\* InvestmentReturnType::from_number; "None" for an unsupported number
from_number(value) ==
    CASE value = 1 -> "ReverseLoan"
      [] value = 2 -> "Coupon"
      [] OTHER     -> "None"

\* fault: an investment starts Claimable whatever the block
calculate_initial_status_always_claimable(claim_block_days) ==
    "Claimable"

calculate_initial_status(claim_block_days) ==
    IF claim_block_days > 0 THEN "Blocked" ELSE "Claimable"

calculate_claimable_ts(timestamp, claim_block_days) ==
    timestamp + claim_block_days * SECONDS_IN_DAY

\* fault: the regular payment is rounded up instead of truncated
calculate_regular_payment_rounded_up(interest_gains, total_gains, return_months, return_type) ==
    IF return_type = "Coupon"
    THEN TruncDiv(interest_gains + return_months - 1, return_months)
    ELSE TruncDiv(total_gains + return_months - 1, return_months)

\* fault: the regular payment is a share of the interest for both return types
calculate_regular_payment_interest_only(interest_gains, total_gains, return_months, return_type) ==
    TruncDiv(interest_gains, return_months)

calculate_regular_payment(interest_gains, total_gains, return_months, return_type) ==
    IF return_type = "Coupon"
    THEN TruncDiv(interest_gains, return_months)
    ELSE TruncDiv(total_gains, return_months)

\* Investment::new
Investment_new(timestamp, cd, amount, decimals, token_id) ==
    LET amounts          == from_investment(amount, cd.interest_rate, decimals)
        real_amount      == amounts.amount_to_invest + amounts.amount_to_reserve_fund
        current_interest == TruncDiv(TruncDiv(real_amount * cd.interest_rate, 100), 100)
        total_gains      == real_amount + current_interest
    IN  [deposited             |-> real_amount,
         commission            |-> amounts.amount_to_commission,
         accumulated_interests |-> current_interest,
         total                 |-> total_gains,
         claimable_ts          |-> calculate_claimable_ts(timestamp, cd.claim_block_days),
         last_transfer_ts      |-> 0,
         status                |-> calculate_initial_status(cd.claim_block_days),
         regular_payment       |-> calculate_regular_payment(current_interest, total_gains,
                                                             cd.return_months, cd.return_type),
         paid                  |-> 0,
         payments_transferred  |-> 0,
         token_id              |-> token_id]

\* fault: the final payment adds the principal whatever the return type
process_investment_payment_principal_any_type(inv, timestamp, cd) ==
    LET payments_transferred == inv.payments_transferred + 1
        is_last_payment      == payments_transferred >= cd.return_months
        bullet == IF is_last_payment THEN inv.deposited ELSE 0
    IN  [inv |-> [inv EXCEPT !.status = IF is_last_payment THEN "Finished" ELSE "CashFlowing",
                             !.paid = inv.paid + inv.regular_payment + bullet,
                             !.last_transfer_ts = timestamp,
                             !.payments_transferred = payments_transferred],
         amount_to_transfer |-> inv.regular_payment + bullet]

\* fault: a payment that is not the last one leaves the status as it was
process_investment_payment_keeps_status(inv, timestamp, cd) ==
    LET payments_transferred == inv.payments_transferred + 1
        is_last_payment      == payments_transferred >= cd.return_months
        bullet == IF is_last_payment /\ cd.return_type = "Coupon" THEN inv.deposited ELSE 0
    IN  [inv |-> [inv EXCEPT !.status = IF is_last_payment THEN "Finished" ELSE inv.status,
                             !.paid = inv.paid + inv.regular_payment + bullet,
                             !.last_transfer_ts = timestamp,
                             !.payments_transferred = payments_transferred],
         amount_to_transfer |-> inv.regular_payment + bullet]

\* Investment::process_investment_payment: the mutated investment and the
\* amount to transfer
process_investment_payment(inv, timestamp, cd) ==
    LET payments_transferred == inv.payments_transferred + 1
        is_last_payment      == payments_transferred >= cd.return_months
        bullet == IF is_last_payment /\ cd.return_type = "Coupon" THEN inv.deposited ELSE 0
    IN  [inv |-> [inv EXCEPT !.status = IF is_last_payment THEN "Finished" ELSE "CashFlowing",
                             !.paid = inv.paid + inv.regular_payment + bullet,
                             !.last_transfer_ts = timestamp,
                             !.payments_transferred = payments_transferred],
         amount_to_transfer |-> inv.regular_payment + bullet]

\* fault: the last period is recognised one payment late
process_multiple_payments_late_finish(inv, timestamp, cd, num_payments) ==
    LET total_amount         == inv.regular_payment * num_payments
        payments_transferred == inv.payments_transferred + num_payments
        is_last_payment      == payments_transferred > cd.return_months
        bullet == IF is_last_payment /\ cd.return_type = "Coupon" THEN inv.deposited ELSE 0
    IN  [inv |-> [inv EXCEPT !.status = IF is_last_payment THEN "Finished" ELSE "CashFlowing",
                             !.paid = inv.paid + total_amount + bullet,
                             !.last_transfer_ts = timestamp,
                             !.payments_transferred = payments_transferred],
         amount_to_transfer |-> total_amount + bullet]

\* Investment::process_multiple_payments
process_multiple_payments(inv, timestamp, cd, num_payments) ==
    LET total_amount         == inv.regular_payment * num_payments
        payments_transferred == inv.payments_transferred + num_payments
        is_last_payment      == payments_transferred >= cd.return_months
        bullet == IF is_last_payment /\ cd.return_type = "Coupon" THEN inv.deposited ELSE 0
    IN  [inv |-> [inv EXCEPT !.status = IF is_last_payment THEN "Finished" ELSE "CashFlowing",
                             !.paid = inv.paid + total_amount + bullet,
                             !.last_transfer_ts = timestamp,
                             !.payments_transferred = payments_transferred],
         amount_to_transfer |-> total_amount + bullet]

(***************************************************************************)
(* claim.rs                                                                *)
(***************************************************************************)
is_claim_next(claim, timestamp) ==
    claim.next_transfer_ts <= timestamp + SECONDS_IN_WEEK

\* fault: the due date is always counted from last_transfer_ts
calculate_next_claim_from_last_transfer(timestamp, investment) ==
    [next_transfer_ts |-> investment.last_transfer_ts + SECONDS_IN_MONTH,
     amount_to_pay    |-> investment.regular_payment]

calculate_next_claim(timestamp, investment) ==
    [next_transfer_ts |-> IF investment.last_transfer_ts > 0
                          THEN investment.last_transfer_ts + SECONDS_IN_MONTH
                          ELSE timestamp + SECONDS_IN_MONTH,
     amount_to_pay    |-> investment.regular_payment]

\* The three unsigned subtractions of calculate_claimable_payments
\* (u32 remaining, u64 elapsed): whether the one evaluated would underflow.
claimable_payments_underflow(timestamp, investment, return_months) ==
    \/ return_months < investment.payments_transferred
    \/ /\ investment.last_transfer_ts = 0
       /\ timestamp < investment.claimable_ts
    \/ /\ investment.last_transfer_ts # 0
       /\ timestamp < investment.last_transfer_ts

\* fault: the first claim does not count the period due at claimable_ts
calculate_claimable_payments_no_first_period(timestamp, investment, return_months) ==
    LET remaining == return_months - investment.payments_transferred
        eligible  == IF investment.last_transfer_ts = 0
                     THEN (timestamp - investment.claimable_ts) \div SECONDS_IN_MONTH
                     ELSE (timestamp - investment.last_transfer_ts) \div SECONDS_IN_MONTH
    IN  Min(eligible, remaining)

\* fault: the periods due are not capped by the periods remaining
calculate_claimable_payments_uncapped(timestamp, investment, return_months) ==
    IF investment.last_transfer_ts = 0
    THEN ((timestamp - investment.claimable_ts) \div SECONDS_IN_MONTH) + 1
    ELSE (timestamp - investment.last_transfer_ts) \div SECONDS_IN_MONTH

calculate_claimable_payments(timestamp, investment, return_months) ==
    LET remaining == return_months - investment.payments_transferred
        eligible  == IF investment.last_transfer_ts = 0
                     THEN ((timestamp - investment.claimable_ts) \div SECONDS_IN_MONTH) + 1
                     ELSE (timestamp - investment.last_transfer_ts) \div SECONDS_IN_MONTH
    IN  Min(eligible, remaining)

(***************************************************************************)
(* validation.rs: each validator yields "Ok" or the Error it returns.      *)
(***************************************************************************)
\* fault: the goal is checked before the interest rate
validate_constructor_params_goal_first(i_rate, goal, return_months, min_per_investment) ==
    CASE ~(goal > 0)               -> "GoalMustBeGreaterThanZero"
      [] ~(i_rate > 0)             -> "InterestRateMustBeGreaterThanZero"
      [] ~(return_months > 0)      -> "ReturnMonthsMustBeGreaterThanZero"
      [] ~(min_per_investment > 0) -> "MinPerInvestmentMustBeGreaterThanZero"
      [] OTHER                     -> "Ok"

validate_constructor_params(i_rate, goal, return_months, min_per_investment) ==
    CASE ~(i_rate > 0)             -> "InterestRateMustBeGreaterThanZero"
      [] ~(goal > 0)               -> "GoalMustBeGreaterThanZero"
      [] ~(return_months > 0)      -> "ReturnMonthsMustBeGreaterThanZero"
      [] ~(min_per_investment > 0) -> "MinPerInvestmentMustBeGreaterThanZero"
      [] OTHER                     -> "Ok"

validate_investment_payment(timestamp, investment) ==
    IF ~(timestamp >= investment.claimable_ts)
    THEN "AddressInvestmentIsNotClaimableYet"
    ELSE IF ~(investment.status # "Finished")
    THEN "AddressInvestmentIsFinished"
    ELSE IF ~(\/ investment.last_transfer_ts = 0
              \/ timestamp - investment.last_transfer_ts >= SECONDS_IN_MONTH)
    THEN "AddressInvestmentNextTransferNotClaimableYet"
    ELSE "Ok"

\* fault: the project bucket is counted as available for payments too
validate_reserve_balance_with_project(amount_to_transfer, contract_balances) ==
    IF ~(amount_to_transfer <= contract_balances.reserve + contract_balances.project)
    THEN "ContractInsufficientBalance"
    ELSE "Ok"

validate_reserve_balance(amount_to_transfer, contract_balances) ==
    IF ~(amount_to_transfer <= contract_balances.reserve)
    THEN "ContractInsufficientBalance"
    ELSE "Ok"

\* fault: the contract state is looked at before the minimum
validate_investment_state_first(amount, cd, investor_balance) ==
    IF ~(cd.state # "FundsReached")
    THEN "GoalAlreadyReached"
    ELSE IF ~(amount >= cd.min_per_investment)
    THEN "AmountLessThanMinimum"
    ELSE IF ~(investor_balance >= amount)
    THEN "AddressInsufficientBalance"
    ELSE IF ~(amount > 0)
    THEN "AmountToInvestMustBeGreaterThanZero"
    ELSE "Ok"

\* fault: the contract state is not looked at
validate_investment_any_state(amount, cd, investor_balance) ==
    IF ~(amount >= cd.min_per_investment)
    THEN "AmountLessThanMinimum"
    ELSE IF ~(investor_balance >= amount)
    THEN "AddressInsufficientBalance"
    ELSE IF ~(amount > 0)
    THEN "AmountToInvestMustBeGreaterThanZero"
    ELSE "Ok"

validate_investment(amount, cd, investor_balance) ==
    IF ~(amount >= cd.min_per_investment)
    THEN "AmountLessThanMinimum"
    ELSE IF ~(cd.state # "FundsReached")
    THEN "GoalAlreadyReached"
    ELSE IF ~(investor_balance >= amount)
    THEN "AddressInsufficientBalance"
    ELSE IF ~(amount > 0)
    THEN "AmountToInvestMustBeGreaterThanZero"
    ELSE "Ok"

\* fault: each deposit is compared with the goal on its own
validate_investment_goal_per_deposit(received_so_far, amount_to_invest, goal) ==
    IF ~(amount_to_invest <= goal)
    THEN "WouldExceedGoal"
    ELSE "Ok"

validate_investment_goal(received_so_far, amount_to_invest, goal) ==
    IF ~(received_so_far + amount_to_invest <= goal)
    THEN "WouldExceedGoal"
    ELSE "Ok"

validate_withdrawal(amount, project_balance) ==
    IF ~(project_balance >= amount) THEN "ContractInsufficientBalance" ELSE "Ok"

validate_company_transfer(owner_balance, amount) ==
    IF ~(owner_balance >= amount) THEN "AddressInsufficientBalance" ELSE "Ok"

\* fault: the whole project balance may be moved, as it may be withdrawn
validate_move_to_reserve_allows_equal(amount, project_balance) ==
    IF ~(project_balance >= amount) THEN "ProjectBalanceInsufficientAmount" ELSE "Ok"

validate_move_to_reserve(amount, project_balance) ==
    IF ~(project_balance > amount) THEN "ProjectBalanceInsufficientAmount" ELSE "Ok"

\* fault: an investment that has been paid in part is refused as Finished
validate_claim_refuses_cash_flowing(timestamp, investment) ==
    IF ~(timestamp >= investment.claimable_ts)
    THEN "AddressInvestmentIsNotClaimableYet"
    ELSE IF ~(investment.status \notin {"Finished", "CashFlowing"})
    THEN "AddressInvestmentIsFinished"
    ELSE "Ok"

\* fault: a Finished investment passes
validate_claim_finished_passes(timestamp, investment) ==
    IF ~(timestamp >= investment.claimable_ts)
    THEN "AddressInvestmentIsNotClaimableYet"
    ELSE "Ok"

\* fault: an investment still blocked passes
validate_claim_blocked_passes(timestamp, investment) ==
    IF ~(investment.status # "Finished")
    THEN "AddressInvestmentIsFinished"
    ELSE "Ok"

validate_claim(timestamp, investment) ==
    IF ~(timestamp >= investment.claimable_ts)
    THEN "AddressInvestmentIsNotClaimableYet"
    ELSE IF ~(investment.status # "Finished")
    THEN "AddressInvestmentIsFinished"
    ELSE "Ok"

(***************************************************************************)
(* ContractBalance (balance.rs)                                            *)
(***************************************************************************)
ContractBalance_new ==
    [reserve |-> 0, project |-> 0, comission |-> 0, received_so_far |-> 0,
     payments |-> 0, reserve_contributions |-> 0, project_withdrawals |-> 0,
     moved_from_project_to_reserve |-> 0]

ContractBalance_sum(b) == b.comission + b.project + b.reserve

\* fault: the part sent to the reserve fund is not counted as received
recalculate_from_investment_without_reserve(b, amounts) ==
    [b EXCEPT !.comission = b.comission + amounts.amount_to_commission,
              !.reserve = b.reserve + amounts.amount_to_reserve_fund,
              !.project = b.project + amounts.amount_to_invest,
              !.received_so_far = b.received_so_far + amounts.amount_to_invest]

recalculate_from_investment(b, amounts) ==
    [b EXCEPT !.comission = b.comission + amounts.amount_to_commission,
              !.reserve = b.reserve + amounts.amount_to_reserve_fund,
              !.project = b.project + amounts.amount_to_invest,
              !.received_so_far = b.received_so_far + amounts.amount_to_reserve_fund
                                                    + amounts.amount_to_invest]

recalculate_from_company_contribution(b, amount) ==
    [b EXCEPT !.reserve = b.reserve + amount,
              !.reserve_contributions = b.reserve_contributions + amount]

\* fault: the withdrawal is not added to project_withdrawals
recalculate_from_company_withdrawal_untracked(b, amount) ==
    [b EXCEPT !.project = b.project - amount]

recalculate_from_company_withdrawal(b, amount) ==
    [b EXCEPT !.project = b.project - amount,
              !.project_withdrawals = b.project_withdrawals + amount]

\* fault: the payment is not added to the payments total
recalculate_from_payment_to_investor_unrecorded(b, amount) ==
    [b EXCEPT !.reserve = b.reserve - amount]

recalculate_from_payment_to_investor(b, amount) ==
    [b EXCEPT !.reserve = b.reserve - amount,
              !.payments = b.payments + amount]

recalculate_from_project_to_reserver_movement(b, amount) ==
    [b EXCEPT !.project = b.project - amount,
              !.reserve = b.reserve + amount,
              !.moved_from_project_to_reserve = b.moved_from_project_to_reserve + amount]

(***************************************************************************)
(* Bounds of the model and the environment it runs in.                     *)
(***************************************************************************)
MaxInvestments == 2     \* investments (NFT token ids) minted
MaxTicks == 4           \* ledger clock advances explored
TokenDecimals == 2      \* decimals() of the token contract
UserFunds == 200000     \* tokens minted to the investor
OwnerFunds == 120000    \* tokens minted to the contract owner
ReturnMonths == 3       \* the positive return_months a deployment may choose

\* The ledger clock: seconds from 0 (the timestamp of a fresh test ledger),
\* advanced 20 days a tick.
LedgerStart == 0
TickSeconds == 20 * SECONDS_IN_DAY
LedgerEnd   == LedgerStart + MaxTicks * TickSeconds

\* Arguments the callers pass.
InterestRates  == {0, 500}
BlockDays      == {0, 7}
ReturnTypes    == {0, 1, 2}
ReturnMonthsOf == {0, ReturnMonths}
MinPerInvest   == {0, 100}
SmallDeposit   == 50000
LargeDeposit   == 100000
\* a goal met exactly by one small and one large deposit
GoalOf(i_rate) ==
    get_invested_amount(from_investment(SmallDeposit, i_rate, TokenDecimals))
    + get_invested_amount(from_investment(LargeDeposit, i_rate, TokenDecimals))
Goals          == {0, GoalOf(500)}
InvestAmounts  == {50, SmallDeposit, LargeDeposit, UserFunds + 50000}
TokenIds       == 0..MaxInvestments

\* Amount::from_investment, with the splits of the deposits the investor
\* can make computed once: the same values as from_investment
SplitTable ==
    [amount \in {a \in InvestAmounts : a > 0}, i_rate \in {r \in InterestRates : r > 0},
     decimals \in {TokenDecimals}
        |-> from_investment(amount, i_rate, decimals)]

Amount_from_investment(amount, i_rate, decimals) ==
    IF <<amount, i_rate, decimals>> \in DOMAIN SplitTable
    THEN SplitTable[amount, i_rate, decimals]
    ELSE from_investment(amount, i_rate, decimals)

VARIABLES
    contract_data,   \* DataKey::ContractData, or NoData before construction
    owner,           \* the Ownable owner, or "none"
    balances,        \* DataKey::ContractBalances (all-zero while absent)
    investments,     \* DataKey::Investment(token_id): token_id -> Investment
    claims_map,      \* DataKey::ClaimsMap: token_id -> Claim
    token_balance,   \* the token contract's balance of each address
    now,             \* env.ledger().timestamp()
    paused,          \* the Pausable flag
    history,         \* per investment: how it has been paid so far (history variable)
    p_amount, p_decimals, p_rate, p_out   \* inputs and result of a pure-function call

vars == <<contract_data, owner, balances, investments, claims_map, token_balance,
          now, paused, history, p_amount, p_decimals, p_rate, p_out>>

contract_vars == <<contract_data, owner, balances, investments, claims_map,
                   token_balance, now, paused, history>>
pure_vars == <<p_amount, p_decimals, p_rate, p_out>>

NoData == [state |-> "NoData"]

\* Everything the contract and the token contract store.
Stored ==
    [contract_data |-> contract_data, owner |-> owner, balances |-> balances,
     investments |-> investments, claims_map |-> claims_map,
     token_balance |-> token_balance]

Result(err, st) == [err |-> err, st |-> st]

(***************************************************************************)
(* storage.rs and the collaborators (token contract, NFT base).            *)
(***************************************************************************)
\* token.try_transfer: fails for a negative amount, for a balance that does
\* not cover it, or when the recipient cannot receive (recipient_ok = FALSE)
try_transfer(tb, from, to, amount, recipient_ok) ==
    IF amount < 0 \/ tb[from] < amount \/ ~recipient_ok
    THEN [ok |-> FALSE, tb |-> tb]
    ELSE [ok |-> TRUE,
          tb |-> [tb EXCEPT ![from] = tb[from] - amount, ![to] = tb[to] + amount]]

update_investment_with_claim(st, timestamp, token_id, investment) ==
    [st EXCEPT !.investments = (token_id :> investment) @@ st.investments,
               !.claims_map = (token_id :> calculate_next_claim(timestamp, investment))
                              @@ st.claims_map]

update_contract_balances(st, contract_balances) ==
    [st EXCEPT !.balances = contract_balances]

update_contract_data(st, cd) == [st EXCEPT !.contract_data = cd]

\* Base::sequential_mint: the next token id, counted from 0
sequential_mint(st) == Cardinality(DOMAIN st.investments)

(***************************************************************************)
(* contract.rs: every public operation maps the stored state and its       *)
(* arguments to the Result it returns and the state it leaves.  Writes are *)
(* applied in the order of the code (st1, st2, ...); a failing step        *)
(* returns with the writes made so far.                                    *)
(***************************************************************************)
from_investment_contract_params(params) ==
    [interest_rate      |-> params.i_rate,
     claim_block_days   |-> params.claim_block_days,
     state              |-> "Active",
     return_type        |-> from_number(params.return_type),
     return_months      |-> params.return_months,
     min_per_investment |-> params.min_per_investment,
     goal               |-> params.goal]

constructor(st, params) ==
    LET v   == validate_constructor_params(params.i_rate, params.goal,
                                           params.return_months, params.min_per_investment)
        st1 == [st EXCEPT !.owner = "admin"]
        st2 == update_contract_data(st1, from_investment_contract_params(params))
    IN  IF v # "Ok" THEN Result(v, st)
        ELSE IF from_number(params.return_type) = "None"
        THEN Result("UnsupportedReturnType", st)
        ELSE Result("Ok", st2)

\* fault: the investment and its next claim are stored before the reserve
\* is validated and the tokens are transferred
process_investor_payment_store_first(st, timestamp, is_paused, token_id, recipient_ok) ==
    LET cd         == st.contract_data
        investment == st.investments[token_id]
        v          == validate_investment_payment(timestamp, investment)
        paid       == process_investment_payment(investment, timestamp, cd)
        st1        == update_investment_with_claim(st, timestamp, token_id, paid.inv)
        vr         == validate_reserve_balance(paid.amount_to_transfer, st.balances)
        tr         == try_transfer(st.token_balance, "contract", "user",
                                   paid.amount_to_transfer, recipient_ok)
        st2        == [st1 EXCEPT !.token_balance = tr.tb]
        st3        == update_contract_balances(st2,
                          recalculate_from_payment_to_investor(st.balances,
                                                               paid.amount_to_transfer))
    IN  IF is_paused THEN Result("EnforcedPause", st)
        ELSE IF token_id \notin DOMAIN st.investments
        THEN Result("NonExistentToken", st)
        ELSE IF v # "Ok" THEN Result(v, st)
        ELSE IF vr # "Ok" THEN Result(vr, st1)
        ELSE IF ~tr.ok THEN Result("RecipientCannotReceivePayment", st1)
        ELSE Result("Ok", st3)

\* fault: the investment is looked up before the owner of the token
process_investor_payment_lookup_first(st, timestamp, is_paused, token_id, recipient_ok) ==
    LET cd         == st.contract_data
        investment == st.investments[token_id]
        v          == validate_investment_payment(timestamp, investment)
        paid       == process_investment_payment(investment, timestamp, cd)
        vr         == validate_reserve_balance(paid.amount_to_transfer, st.balances)
        tr         == try_transfer(st.token_balance, "contract", "user",
                                   paid.amount_to_transfer, recipient_ok)
        st1        == [st EXCEPT !.token_balance = tr.tb]
        st2        == update_investment_with_claim(st1, timestamp, token_id, paid.inv)
        st3        == update_contract_balances(st2,
                          recalculate_from_payment_to_investor(st.balances,
                                                               paid.amount_to_transfer))
    IN  IF is_paused THEN Result("EnforcedPause", st)
        ELSE IF token_id \notin DOMAIN st.investments
        THEN Result("AddressHasNotInvested", st)
        ELSE IF v # "Ok" THEN Result(v, st)
        ELSE IF vr # "Ok" THEN Result(vr, st)
        ELSE IF ~tr.ok THEN Result("RecipientCannotReceivePayment", st)
        ELSE Result("Ok", st3)

process_investor_payment(st, timestamp, is_paused, token_id, recipient_ok) ==
    LET cd         == st.contract_data
        investment == st.investments[token_id]
        v          == validate_investment_payment(timestamp, investment)
        paid       == process_investment_payment(investment, timestamp, cd)
        vr         == validate_reserve_balance(paid.amount_to_transfer, st.balances)
        tr         == try_transfer(st.token_balance, "contract", "user",
                                   paid.amount_to_transfer, recipient_ok)
        st1        == [st EXCEPT !.token_balance = tr.tb]
        st2        == update_investment_with_claim(st1, timestamp, token_id, paid.inv)
        st3        == update_contract_balances(st2,
                          recalculate_from_payment_to_investor(st.balances,
                                                               paid.amount_to_transfer))
    IN  IF is_paused THEN Result("EnforcedPause", st)
        ELSE IF token_id \notin DOMAIN st.investments
        THEN Result("NonExistentToken", st)
        ELSE IF v # "Ok" THEN Result(v, st)
        ELSE IF vr # "Ok" THEN Result(vr, st)
        ELSE IF ~tr.ok THEN Result("RecipientCannotReceivePayment", st)
        ELSE Result("Ok", st3)

\* fault: the state switches only when the goal is exceeded
invest_switches_above_goal(st, timestamp, is_paused, amount, recipient_ok) ==
    LET cd       == st.contract_data
        v        == validate_investment(amount, cd, st.token_balance["user"])
        amounts  == Amount_from_investment(amount, cd.interest_rate, TokenDecimals)
        vg       == validate_investment_goal(st.balances.received_so_far,
                                             get_invested_amount(amounts), cd.goal)
        tr       == try_transfer(st.token_balance, "user", "contract", amount, recipient_ok)
        contract_balance == recalculate_from_investment(st.balances, amounts)
        token_id == sequential_mint(st)
        addr_investment == Investment_new(timestamp, cd, amount, TokenDecimals, token_id)
        st1      == [st EXCEPT !.token_balance = tr.tb]
        st2      == update_contract_balances(st1, contract_balance)
        st3      == update_investment_with_claim(st2, timestamp, token_id, addr_investment)
        st4      == IF contract_balance.received_so_far > cd.goal
                    THEN update_contract_data(st3, [cd EXCEPT !.state = "FundsReached"])
                    ELSE st3
    IN  IF is_paused THEN Result("EnforcedPause", st)
        ELSE IF v # "Ok" THEN Result(v, st)
        ELSE IF vg # "Ok" THEN Result(vg, st)
        ELSE IF ~tr.ok THEN Result("RecipientCannotReceivePayment", st)
        ELSE Result("Ok", st4)

invest(st, timestamp, is_paused, amount, recipient_ok) ==
    LET cd       == st.contract_data
        v        == validate_investment(amount, cd, st.token_balance["user"])
        amounts  == Amount_from_investment(amount, cd.interest_rate, TokenDecimals)
        vg       == validate_investment_goal(st.balances.received_so_far,
                                             get_invested_amount(amounts), cd.goal)
        tr       == try_transfer(st.token_balance, "user", "contract", amount, recipient_ok)
        contract_balance == recalculate_from_investment(st.balances, amounts)
        token_id == sequential_mint(st)
        addr_investment == Investment_new(timestamp, cd, amount, TokenDecimals, token_id)
        st1      == [st EXCEPT !.token_balance = tr.tb]
        st2      == update_contract_balances(st1, contract_balance)
        st3      == update_investment_with_claim(st2, timestamp, token_id, addr_investment)
        st4      == IF contract_balance.received_so_far >= cd.goal
                    THEN update_contract_data(st3, [cd EXCEPT !.state = "FundsReached"])
                    ELSE st3
    IN  IF is_paused THEN Result("EnforcedPause", st)
        ELSE IF v # "Ok" THEN Result(v, st)
        ELSE IF vg # "Ok" THEN Result(vg, st)
        ELSE IF ~tr.ok THEN Result("RecipientCannotReceivePayment", st)
        ELSE Result("Ok", st4)

\* fault: the withdrawal does not look at the pause
single_withdrawn_while_paused(st, is_paused, amount, recipient_ok) ==
    LET v   == validate_withdrawal(amount, st.balances.project)
        tr  == try_transfer(st.token_balance, "contract", "project", amount, recipient_ok)
        st1 == [st EXCEPT !.token_balance = tr.tb]
        st2 == update_contract_balances(st1,
                   recalculate_from_company_withdrawal(st.balances, amount))
    IN  IF v # "Ok" THEN Result(v, st)
        ELSE IF ~tr.ok THEN Result("RecipientCannotReceivePayment", st)
        ELSE Result("Ok", st2)

single_withdrawn(st, is_paused, amount, recipient_ok) ==
    LET v   == validate_withdrawal(amount, st.balances.project)
        tr  == try_transfer(st.token_balance, "contract", "project", amount, recipient_ok)
        st1 == [st EXCEPT !.token_balance = tr.tb]
        st2 == update_contract_balances(st1,
                   recalculate_from_company_withdrawal(st.balances, amount))
    IN  IF is_paused THEN Result("EnforcedPause", st)
        ELSE IF v # "Ok" THEN Result(v, st)
        ELSE IF ~tr.ok THEN Result("RecipientCannotReceivePayment", st)
        ELSE Result("Ok", st2)

add_company_transfer(st, amount, recipient_ok) ==
    LET v   == validate_company_transfer(st.token_balance["owner"], amount)
        tr  == try_transfer(st.token_balance, "owner", "contract", amount, recipient_ok)
        st1 == [st EXCEPT !.token_balance = tr.tb]
        st2 == update_contract_balances(st1,
                   recalculate_from_company_contribution(st1.balances, amount))
    IN  IF v # "Ok" THEN Result(v, st)
        ELSE IF ~tr.ok THEN Result("RecipientCannotReceivePayment", st)
        ELSE Result("Ok", st2)

move_funds_to_the_reserve(st, amount) ==
    LET v   == validate_move_to_reserve(amount, st.balances.project)
        st1 == update_contract_balances(st,
                   recalculate_from_project_to_reserver_movement(st.balances, amount))
    IN  IF v # "Ok" THEN Result(v, st) ELSE Result("Ok", st1)

claim(st, timestamp, is_paused, token_id, recipient_ok) ==
    LET cd           == st.contract_data
        investment   == st.investments[token_id]
        v            == validate_claim(timestamp, investment)
        num_payments == calculate_claimable_payments(timestamp, investment, cd.return_months)
        paid         == process_multiple_payments(investment, timestamp, cd, num_payments)
        vr           == validate_reserve_balance(paid.amount_to_transfer, st.balances)
        tr           == try_transfer(st.token_balance, "contract", "user",
                                     paid.amount_to_transfer, recipient_ok)
        st1          == [st EXCEPT !.token_balance = tr.tb]
        st2          == update_investment_with_claim(st1, timestamp, token_id, paid.inv)
        st3          == update_contract_balances(st2,
                            recalculate_from_payment_to_investor(st.balances,
                                                                 paid.amount_to_transfer))
    IN  IF is_paused THEN Result("EnforcedPause", st)
        ELSE IF token_id \notin DOMAIN st.investments
        THEN Result("NonExistentToken", st)
        ELSE IF v # "Ok" THEN Result(v, st)
        ELSE IF claimable_payments_underflow(timestamp, investment, cd.return_months)
        THEN Result("Panic", st)      \* arithmetic overflow aborts the call
        ELSE IF ~(num_payments > 0)
        THEN Result("AddressInvestmentNextTransferNotClaimableYet", st)
        ELSE IF vr # "Ok" THEN Result(vr, st)
        ELSE IF ~tr.ok THEN Result("RecipientCannotReceivePayment", st)
        ELSE Result("Ok", st3)

\* The loop of check_reserve_balance: amount_to_pay summed over the entries
\* of `ids` that are due within a week, starting from min_funds.
RECURSIVE sum_claims_next(_, _, _, _)
sum_claims_next(cm, ids, timestamp, min_funds) ==
    IF ids = {}
    THEN min_funds
    ELSE LET id == CHOOSE x \in ids : \A y \in ids : x <= y
             next_claim == cm[id]
         IN  sum_claims_next(cm, ids \ {id}, timestamp,
                             IF is_claim_next(next_claim, timestamp)
                             THEN min_funds + next_claim.amount_to_pay
                             ELSE min_funds)

\* InvestmentContract::check_reserve_balance: reads only; `value` is the
\* amount returned
check_reserve_balance(st, timestamp) ==
    LET min_funds == sum_claims_next(st.claims_map, DOMAIN st.claims_map, timestamp, 0)
    IN  [err |-> "Ok", st |-> st,
         value |-> IF min_funds > 0 /\ st.balances.reserve < min_funds
                   THEN min_funds - st.balances.reserve
                   ELSE 0]

(***************************************************************************)
(* The state machine.                                                      *)
(***************************************************************************)
InitContract ==
    /\ contract_data = NoData
    /\ owner = "none"
    /\ balances = ContractBalance_new
    /\ investments = <<>>
    /\ claims_map = <<>>
    /\ token_balance = [user |-> UserFunds, owner |-> OwnerFunds,
                        contract |-> 0, project |-> 0]
    /\ now = LedgerStart
    /\ paused = FALSE
    /\ history = <<>>

InitPure ==
    /\ p_amount = 0
    /\ p_decimals = 0
    /\ p_rate = 0
    /\ p_out = [op |-> "none"]

Init == InitContract /\ InitPure

\* A call returned `r`: the stored state becomes r.st.
Returns(r) ==
    /\ contract_data' = r.st.contract_data
    /\ owner' = r.st.owner
    /\ balances' = r.st.balances
    /\ investments' = r.st.investments
    /\ claims_map' = r.st.claims_map
    /\ token_balance' = r.st.token_balance
    /\ UNCHANGED <<now, paused, pure_vars>>

Constructed == contract_data # NoData

Constructor ==
    /\ ~Constructed
    /\ \E i_rate \in InterestRates, claim_block_days \in BlockDays, goal \in Goals,
          return_type \in ReturnTypes, return_months \in ReturnMonthsOf,
          min_per_investment \in MinPerInvest :
          Returns(constructor(Stored,
                              [i_rate |-> i_rate, claim_block_days |-> claim_block_days,
                               goal |-> goal, return_type |-> return_type,
                               return_months |-> return_months,
                               min_per_investment |-> min_per_investment]))
    /\ UNCHANGED history

Invest ==
    /\ Constructed
    /\ Cardinality(DOMAIN investments) < MaxInvestments
    /\ \E amount \in InvestAmounts, recipient_ok \in BOOLEAN :
          Returns(invest(Stored, now, paused, amount, recipient_ok))
    /\ UNCHANGED history

ProcessInvestorPayment ==
    /\ Constructed
    /\ \E token_id \in TokenIds, recipient_ok \in BOOLEAN :
          Returns(process_investor_payment(Stored, now, paused, token_id, recipient_ok))
    /\ UNCHANGED history

Claim ==
    /\ Constructed
    /\ \E token_id \in TokenIds, recipient_ok \in BOOLEAN :
          Returns(claim(Stored, now, paused, token_id, recipient_ok))
    /\ UNCHANGED history

WithdrawAmounts == {-1, 0, balances.project, balances.project + 1}

SingleWithdrawn ==
    /\ Constructed
    /\ \E amount \in WithdrawAmounts, recipient_ok \in BOOLEAN :
          Returns(single_withdrawn(Stored, paused, amount, recipient_ok))
    /\ UNCHANGED history

TransferAmounts == {-1, 0, OwnerFunds, OwnerFunds + 1}

AddCompanyTransfer ==
    /\ Constructed
    /\ \E amount \in TransferAmounts, recipient_ok \in BOOLEAN :
          Returns(add_company_transfer(Stored, amount, recipient_ok))
    /\ UNCHANGED history

MoveAmounts == {0, SmallDeposit, balances.project}

MoveFundsToTheReserve ==
    /\ Constructed
    /\ \E amount \in MoveAmounts :
          Returns(move_funds_to_the_reserve(Stored, amount))
    /\ UNCHANGED history

Pause ==
    /\ Constructed
    /\ ~paused
    /\ paused' = TRUE
    /\ UNCHANGED <<contract_data, owner, balances, investments, claims_map,
                   token_balance, now, history, pure_vars>>

Unpause ==
    /\ Constructed
    /\ paused
    /\ paused' = FALSE
    /\ UNCHANGED <<contract_data, owner, balances, investments, claims_map,
                   token_balance, now, history, pure_vars>>

\* The ledger closes: time advances.
Tick ==
    /\ now < LedgerEnd
    /\ now' = now + TickSeconds
    /\ UNCHANGED <<contract_data, owner, balances, investments, claims_map,
                   token_balance, paused, history, pure_vars>>

Next ==
    \/ Constructor
    \/ Invest
    \/ ProcessInvestorPayment
    \/ Claim
    \/ SingleWithdrawn
    \/ AddCompanyTransfer
    \/ MoveFundsToTheReserve
    \/ Pause
    \/ Unpause
    \/ Tick

Spec == Init /\ [][Next]_vars

(***************************************************************************)
(* The same program with a history variable recording how each investment *)
(* has been paid.                                                          *)
(***************************************************************************)
\* The history of an investment: by_claim_only while no admin payment has
\* succeeded on it.
NewHistory == [by_claim_only |-> TRUE]

InvestRecorded ==
    /\ Constructed
    /\ Cardinality(DOMAIN investments) < MaxInvestments
    /\ \E amount \in InvestAmounts, recipient_ok \in BOOLEAN :
          LET r == invest(Stored, now, paused, amount, recipient_ok)
          IN  /\ Returns(r)
              /\ history' = IF r.err = "Ok"
                            THEN (sequential_mint(Stored) :> NewHistory) @@ history
                            ELSE history

ProcessInvestorPaymentRecorded ==
    /\ Constructed
    /\ \E token_id \in TokenIds, recipient_ok \in BOOLEAN :
          LET r == process_investor_payment(Stored, now, paused, token_id, recipient_ok)
          IN  /\ Returns(r)
              /\ history' = IF r.err = "Ok"
                            THEN [history EXCEPT ![token_id].by_claim_only = FALSE]
                            ELSE history

NextRecorded ==
    \/ Constructor
    \/ InvestRecorded
    \/ ProcessInvestorPaymentRecorded
    \/ Claim
    \/ SingleWithdrawn
    \/ AddCompanyTransfer
    \/ MoveFundsToTheReserve
    \/ Pause
    \/ Unpause
    \/ Tick

SpecRecorded == Init /\ [][NextRecorded]_vars

(***************************************************************************)
(* The same program with an owner who also passes negative amounts to      *)
(* move_funds_to_the_reserve (amount is an i128 and no check refuses it).  *)
(***************************************************************************)
MaxBackMoves == 1       \* negative moves explored

BackAmounts == {-1}

MoveFundsBack ==
    /\ Constructed
    /\ balances.moved_from_project_to_reserve \in (1 - MaxBackMoves)..0
    /\ \E amount \in BackAmounts :
          Returns(move_funds_to_the_reserve(Stored, amount))
    /\ UNCHANGED history

NextSigned ==
    \/ Constructor
    \/ Invest
    \/ ProcessInvestorPayment
    \/ Claim
    \/ SingleWithdrawn
    \/ AddCompanyTransfer
    \/ MoveFundsToTheReserve
    \/ MoveFundsBack
    \/ Pause
    \/ Unpause
    \/ Tick

SpecSigned == Init /\ [][NextSigned]_vars

(***************************************************************************)
(* The program in an environment that keeps the clock advancing: a ledger  *)
(* that can close does close (weak fairness of Tick).  The owner's two     *)
(* operations on the project bucket, single_withdrawn and                  *)
(* move_funds_to_the_reserve, are left out: the reserve is replenished     *)
(* with add_company_transfer.                                              *)
(***************************************************************************)
\* The investor's claim of investment token_id succeeds.
ClaimOf(token_id) ==
    /\ Constructed
    /\ claim(Stored, now, paused, token_id, TRUE).err = "Ok"
    /\ Returns(claim(Stored, now, paused, token_id, TRUE))
    /\ UNCHANGED history

NextLive ==
    \/ Constructor
    \/ Invest
    \/ ProcessInvestorPayment
    \/ Claim
    \/ AddCompanyTransfer
    \/ Pause
    \/ Unpause
    \/ Tick

SpecLive == Init /\ [][NextLive]_vars /\ WF_vars(Tick)

(***************************************************************************)
(* The pure functions of balance.rs, applied to inputs drawn at Init.      *)
(***************************************************************************)
MaxTier == 62           \* commission tiers sampled: whole units up to 100 + 400 * MaxTier + 399
MaxDecimals == 2        \* token decimal counts sampled
MaxSplitUnits == 3400   \* largest deposit split, in whole tokens: the raw Wad
                        \* product amount * 0.05 stays below 2^127

PureWholeUnits ==
    {0} \cup {100 + 400 * t + e : t \in 0..MaxTier, e \in {0, 100, 399}}
PureRates == {1, 500, 2000}

WholeUnits(amount, decimals) == TruncDiv(amount, Pow10(decimals))

InitPureInputs ==
    /\ InitContract
    /\ p_decimals \in 0..MaxDecimals
    /\ p_amount \in {w * Pow10(p_decimals) : w \in PureWholeUnits}
    /\ p_rate \in PureRates
    /\ p_out = [op |-> "none"]

CallRateDenominator ==
    /\ p_out.op = "none"
    /\ p_out' = [op |-> "calculate_rate_denominator",
                 value |-> calculate_rate_denominator(p_amount, p_decimals)]
    /\ UNCHANGED <<contract_vars, p_amount, p_decimals, p_rate>>

CallFromInvestment ==
    /\ p_out.op = "none"
    /\ p_amount > 0
    /\ WholeUnits(p_amount, p_decimals) <= MaxSplitUnits
    /\ p_out' = [op |-> "from_investment",
                 amounts |-> from_investment(p_amount, p_rate, p_decimals)]
    /\ UNCHANGED <<contract_vars, p_amount, p_decimals, p_rate>>

NextPure == CallRateDenominator \/ CallFromInvestment

SpecPure == InitPureInputs /\ [][NextPure]_vars

(***************************************************************************)
(* Properties.                                                             *)
(***************************************************************************)
TokenIdsMinted == DOMAIN investments

\* C1 (as claimed): the bucket sum reserve + project + comission equals
\* received_so_far + reserve_contributions - payments - project_withdrawals.
C1_ConservationAsClaimed ==
    ContractBalance_sum(balances)
        = balances.received_so_far + balances.reserve_contributions
          - balances.payments - balances.project_withdrawals

\* C1 (amended): received_so_far leaves the commission out, so the bucket sum
\* equals comission + received_so_far + reserve_contributions - payments
\* - project_withdrawals in every reachable state.
C1_Conservation ==
    ContractBalance_sum(balances)
        = balances.comission + balances.received_so_far
          + balances.reserve_contributions
          - balances.payments - balances.project_withdrawals

\* a state that invest, a payment, a withdrawal, a company transfer and a
\* move to the reserve have all acted on
C1_Witness ==
    /\ balances.comission > 0
    /\ balances.payments > 0
    /\ balances.project_withdrawals > 0
    /\ balances.reserve_contributions > 0
    /\ balances.moved_from_project_to_reserve > 0

\* C2 (as claimed): the split of a deposit d > 0 loses nothing:
\* amount_to_commission + amount_to_reserve_fund + amount_to_invest = d.
C2_SplitSumsToDeposit ==
    p_out.op = "from_investment" =>
        p_out.amounts.amount_to_commission + p_out.amounts.amount_to_reserve_fund
            + p_out.amounts.amount_to_invest = p_amount

\* C3 (as claimed): the rate denominator lies in [10, 60], is 10 up to 100
\* whole units and min(60, 10 + floor((whole_units - 100) / 400)) above, and
\* is non-decreasing in the amount.
C3_RateDenominator ==
    p_out.op = "calculate_rate_denominator" =>
        LET whole_units == WholeUnits(p_amount, p_decimals)
        IN  /\ p_out.value \in LOWER_DIVISOR..UPPER_DIVISOR
            /\ p_out.value = IF whole_units <= 100
                             THEN 10
                             ELSE Min(60, 10 + (whole_units - 100) \div 400)
            /\ \A w \in PureWholeUnits :
                  w * Pow10(p_decimals) >= p_amount =>
                      calculate_rate_denominator(w * Pow10(p_decimals), p_decimals)
                          >= p_out.value

\* n consecutive single-period payments at one ledger timestamp
RECURSIVE SinglePayments(_, _, _, _)
SinglePayments(inv, timestamp, cd, n) ==
    IF n = 0
    THEN [inv |-> inv, amount_to_transfer |-> 0]
    ELSE LET before == SinglePayments(inv, timestamp, cd, n - 1)
             last   == process_investment_payment(before.inv, timestamp, cd)
         IN  [inv |-> last.inv,
              amount_to_transfer |-> before.amount_to_transfer + last.amount_to_transfer]

\* C4: for every stored investment that is not Finished and every n from 1
\* to the remaining periods, process_multiple_payments(n) leaves the same
\* paid, payments_transferred, status and last_transfer_ts and returns the
\* same total as n calls of process_investment_payment at the same timestamp.
C4_BatchEqualsSingles ==
    \A id \in TokenIdsMinted :
        LET inv == investments[id]
        IN  inv.status # "Finished" =>
                \A n \in 1..(contract_data.return_months - inv.payments_transferred) :
                    LET batch   == process_multiple_payments(inv, now, contract_data, n)
                        singles == SinglePayments(inv, now, contract_data, n)
                    IN  /\ batch.inv.paid = singles.inv.paid
                        /\ batch.inv.payments_transferred = singles.inv.payments_transferred
                        /\ batch.inv.status = singles.inv.status
                        /\ batch.inv.last_transfer_ts = singles.inv.last_transfer_ts
                        /\ batch.amount_to_transfer = singles.amount_to_transfer

\* a Coupon investment in mid-schedule with at least two periods left, so
\* that a batch both spans several periods and can reach the final one
C4_Witness ==
    \E id \in TokenIdsMinted :
        /\ contract_data.return_type = "Coupon"
        /\ investments[id].status = "CashFlowing"
        /\ contract_data.return_months - investments[id].payments_transferred >= 2

\* the number of periods due at time t for an investor who claims one
\* period at each due date
PeriodsDue(investment, t) ==
    Min(contract_data.return_months,
        ((t - investment.claimable_ts) \div SECONDS_IN_MONTH) + 1)

\* C5 (as claimed): an investment paid only through claim has, after a
\* successful claim at time T (its last_transfer_ts), payments_transferred
\* = min(return_months, floor((T - claimable_ts) / SECONDS_IN_MONTH) + 1),
\* whenever the earlier claims were made.  A claim leaves last_transfer_ts
\* = T, and payments_transferred > 0 tells that one was made.
C5_CatchUpAsClaimed ==
    \A id \in TokenIdsMinted :
        (history[id].by_claim_only /\ investments[id].payments_transferred > 0) =>
            investments[id].payments_transferred
                = PeriodsDue(investments[id], investments[id].last_transfer_ts)

\* every argument the callers of the model pass to an operation
ConstructorParams ==
    [i_rate : InterestRates, claim_block_days : BlockDays, goal : Goals,
     return_type : ReturnTypes, return_months : ReturnMonthsOf,
     min_per_investment : MinPerInvest]

\* C6: once an investment's stored status is Finished, no step changes its
\* record (paid, payments_transferred, status, last_transfer_ts), and every
\* process_investor_payment and claim on it is rejected and leaves all
\* stored state, the contract balance included, as it was; with the
\* contract not paused the error is AddressInvestmentIsFinished.
C6_FinishedIsTerminal ==
    [][\A id \in TokenIdsMinted :
          investments[id].status = "Finished" =>
              /\ investments'[id] = investments[id]
              /\ \A recipient_ok \in BOOLEAN, is_paused \in BOOLEAN :
                    LET p == process_investor_payment(Stored, now, is_paused, id, recipient_ok)
                        c == claim(Stored, now, is_paused, id, recipient_ok)
                    IN  /\ p.err # "Ok" /\ p.st = Stored
                        /\ c.err # "Ok" /\ c.st = Stored
                        /\ ~is_paused => /\ p.err = "AddressInvestmentIsFinished"
                                         /\ c.err = "AddressInvestmentIsFinished"]_vars

\* a Finished investment at a later ledger time than its last payment, with
\* the contract not paused
C6_Witness ==
    \E id \in TokenIdsMinted :
        /\ investments[id].status = "Finished"
        /\ investments[id].payments_transferred = contract_data.return_months
        /\ now > investments[id].last_transfer_ts
        /\ ~paused

\* the result of every call that can be made in the current state: the
\* constructor at deployment, the other operations from then on
CallResults ==
    IF ~Constructed
    THEN {constructor(Stored, params) : params \in ConstructorParams}
    ELSE {invest(Stored, now, paused, amount, recipient_ok) :
             amount \in InvestAmounts, recipient_ok \in BOOLEAN}
         \cup {process_investor_payment(Stored, now, paused, token_id, recipient_ok) :
                  token_id \in TokenIds, recipient_ok \in BOOLEAN}
         \cup {claim(Stored, now, paused, token_id, recipient_ok) :
                  token_id \in TokenIds, recipient_ok \in BOOLEAN}
         \cup {single_withdrawn(Stored, paused, amount, recipient_ok) :
                  amount \in WithdrawAmounts, recipient_ok \in BOOLEAN}
         \cup {add_company_transfer(Stored, amount, recipient_ok) :
                  amount \in TransferAmounts, recipient_ok \in BOOLEAN}
         \cup {move_funds_to_the_reserve(Stored, amount) : amount \in MoveAmounts}

\* C7: a call of any public operation that returns an error, a failed token
\* transfer included, leaves ContractData, ContractBalance, every
\* Investment, the claims map and all token balances as they were.
C7_ErrorLeavesStateUnchanged ==
    \A r \in CallResults : r.err # "Ok" => r.st = Stored

\* a payment and a claim are both due and fail on the token transfer, and a
\* withdrawal fails on it too
C7_Witness ==
    /\ Constructed
    /\ \E id \in TokenIdsMinted :
          /\ process_investor_payment(Stored, now, paused, id, FALSE).err
                 = "RecipientCannotReceivePayment"
          /\ claim(Stored, now, paused, id, FALSE).err = "RecipientCannotReceivePayment"
    /\ balances.project > 0
    /\ single_withdrawn(Stored, paused, balances.project, FALSE).err
           = "RecipientCannotReceivePayment"

\* C8: whenever validate_claim passes for a stored investment, none of the
\* subtractions return_months - payments_transferred, now - claimable_ts,
\* now - last_transfer_ts underflows, and the result r of
\* calculate_claimable_payments satisfies 0 <= r <= return_months -
\* payments_transferred.
C8_ClaimablePaymentsInRange ==
    \A id \in TokenIdsMinted :
        validate_claim(now, investments[id]) = "Ok" =>
            LET r == calculate_claimable_payments(now, investments[id],
                                                  contract_data.return_months)
            IN  /\ contract_data.return_months >= investments[id].payments_transferred
                /\ now >= investments[id].claimable_ts
                /\ now >= investments[id].last_transfer_ts
                /\ ~claimable_payments_underflow(now, investments[id],
                                                 contract_data.return_months)
                /\ 0 <= r
                /\ r <= contract_data.return_months - investments[id].payments_transferred

\* a claim just made left one period, and nothing is claimable right after
\* it: the result is 0 with a positive remainder
C8_Witness ==
    \E id \in TokenIdsMinted :
        /\ validate_claim(now, investments[id]) = "Ok"
        /\ investments[id].last_transfer_ts = now
        /\ investments[id].payments_transferred = contract_data.return_months - 1
        /\ calculate_claimable_payments(now, investments[id],
                                        contract_data.return_months) = 0

\* C9: received_so_far never exceeds the goal, and an invest that passes
\* validate_investment and whose reserve + investable portion would take
\* received_so_far over the goal returns WouldExceedGoal with no token
\* transferred and nothing written.
C9_GoalNeverExceeded ==
    Constructed =>
        /\ balances.received_so_far <= contract_data.goal
        /\ \A amount \in InvestAmounts, recipient_ok \in BOOLEAN :
              LET amounts == Amount_from_investment(amount, contract_data.interest_rate,
                                                    TokenDecimals)
                  r == invest(Stored, now, FALSE, amount, recipient_ok)
              IN  (/\ validate_investment(amount, contract_data,
                                          token_balance["user"]) = "Ok"
                   /\ balances.received_so_far + get_invested_amount(amounts)
                          > contract_data.goal)
                  => (r.err = "WouldExceedGoal" /\ r.st = Stored)

\* some funds are in, the goal is not reached, and a deposit the investor
\* can afford would exceed it
C9_Witness ==
    /\ Constructed
    /\ balances.received_so_far > 0
    /\ contract_data.state = "Active"
    /\ invest(Stored, now, paused, LargeDeposit, TRUE).err = "WouldExceedGoal"

\* C10: the constructor leaves the contract Active; once FundsReached it
\* stays FundsReached and received_so_far keeps its value in every step, and
\* every invest is rejected: with AmountLessThanMinimum below the minimum
\* and GoalAlreadyReached otherwise when the contract is not paused.
C10_StateMonotonic ==
    [][/\ (~Constructed /\ Constructed') => contract_data'.state = "Active"
       /\ Constructed =>
          /\ contract_data.state \in {"Active", "FundsReached"}
          /\ contract_data.state = "FundsReached" =>
                /\ contract_data'.state = "FundsReached"
                /\ balances'.received_so_far = balances.received_so_far
                /\ \A amount \in InvestAmounts, recipient_ok \in BOOLEAN,
                      is_paused \in BOOLEAN :
                      LET r == invest(Stored, now, is_paused, amount, recipient_ok)
                      IN  /\ r.err # "Ok"
                          /\ ~is_paused =>
                                r.err = IF amount < contract_data.min_per_investment
                                        THEN "AmountLessThanMinimum"
                                        ELSE "GoalAlreadyReached"]_vars

\* the goal was reached, and the contract has gone on paying and moving funds
C10_Witness ==
    /\ Constructed
    /\ contract_data.state = "FundsReached"
    /\ balances.received_so_far = contract_data.goal
    /\ balances.payments > 0
    /\ balances.project_withdrawals > 0

\* the amounts invest is asked for, with the non-positive ones
AmountsAsked == InvestAmounts \cup {-1, 0}

\* C11: with the contract not paused, invest returns the error of the first
\* failing check in the order: amount < min_per_investment
\* (AmountLessThanMinimum), state = FundsReached (GoalAlreadyReached),
\* investor balance < amount (AddressInsufficientBalance), amount <= 0
\* (AmountToInvestMustBeGreaterThanZero), and only then WouldExceedGoal;
\* with none failing it returns Ok or the failure of the token transfer.
C11_InvestErrorOrder ==
    Constructed =>
        \A amount \in AmountsAsked, recipient_ok \in BOOLEAN :
            LET r == invest(Stored, now, FALSE, amount, recipient_ok)
            IN  IF amount < contract_data.min_per_investment
                THEN r.err = "AmountLessThanMinimum"
                ELSE IF contract_data.state = "FundsReached"
                THEN r.err = "GoalAlreadyReached"
                ELSE IF token_balance["user"] < amount
                THEN r.err = "AddressInsufficientBalance"
                ELSE IF amount <= 0
                THEN r.err = "AmountToInvestMustBeGreaterThanZero"
                ELSE IF balances.received_so_far
                        + get_invested_amount(
                              Amount_from_investment(amount, contract_data.interest_rate,
                                                     TokenDecimals))
                        > contract_data.goal
                THEN r.err = "WouldExceedGoal"
                ELSE r.err \in {"Ok", "RecipientCannotReceivePayment"}

\* the goal is reached and the investor cannot afford the large deposit:
\* for the small amount three checks fail at once, for the large one two
C11_Witness ==
    /\ Constructed
    /\ contract_data.state = "FundsReached"
    /\ token_balance["user"] < LargeDeposit
    /\ invest(Stored, now, FALSE, 50, TRUE).err = "AmountLessThanMinimum"
    /\ invest(Stored, now, FALSE, LargeDeposit, TRUE).err = "GoalAlreadyReached"

\* the error claimed for an admin payment on a stored investment: the first
\* failing check in the order claimable_ts, Finished, month-gate, reserve
PaymentErrorClaimed(investment) ==
    IF now < investment.claimable_ts
    THEN "AddressInvestmentIsNotClaimableYet"
    ELSE IF investment.status = "Finished"
    THEN "AddressInvestmentIsFinished"
    ELSE IF /\ investment.last_transfer_ts # 0
            /\ now - investment.last_transfer_ts < SECONDS_IN_MONTH
    THEN "AddressInvestmentNextTransferNotClaimableYet"
    ELSE IF process_investment_payment(investment, now, contract_data).amount_to_transfer
            > balances.reserve
    THEN "ContractInsufficientBalance"
    ELSE "Ok"

\* the order part of C12 alone: with the contract not paused,
\* process_investor_payment on a stored investment returns the first
\* failing check in the claimed order, and otherwise Ok or the failure of
\* the token transfer
PaymentErrorOrder ==
    \A id \in TokenIdsMinted, recipient_ok \in BOOLEAN :
        LET r == process_investor_payment(Stored, now, FALSE, id, recipient_ok)
            claimed == PaymentErrorClaimed(investments[id])
        IN  IF claimed # "Ok"
            THEN r.err = claimed
            ELSE r.err \in {"Ok", "RecipientCannotReceivePayment"}

\* C12 (as claimed): process_investor_payment reports the first failing
\* check in the order claimable_ts, Finished, month-gate, reserve; hence an
\* admin payment succeeds only at or after claimable_ts and, on an
\* investment already paid, only a month or more after the previous payment
\* (whose time the payment left in last_transfer_ts).
C12_PaymentOrderAndMonthGate ==
    /\ PaymentErrorOrder
    /\ \A id \in TokenIdsMinted :
          process_investor_payment(Stored, now, FALSE, id, TRUE).err = "Ok" =>
              /\ now >= investments[id].claimable_ts
              /\ \/ investments[id].payments_transferred = 0
                 \/ now - investments[id].last_transfer_ts >= SECONDS_IN_MONTH

\* The error the claim path is said to report for a stored investment: the
\* block, then Finished, then no period due; "Ok" when none applies.
ClaimErrorClaimed(investment) ==
    IF now < investment.claimable_ts
    THEN "AddressInvestmentIsNotClaimableYet"
    ELSE IF investment.status = "Finished"
    THEN "AddressInvestmentIsFinished"
    ELSE IF calculate_claimable_payments(now, investment, contract_data.return_months) = 0
    THEN "AddressInvestmentNextTransferNotClaimableYet"
    ELSE "Ok"

\* The stored investment after a claim that processed num_payments periods.
ClaimedPeriods(r, id) ==
    r.st.investments[id].payments_transferred - investments[id].payments_transferred

PaymentDue(investment, num_payments) ==
    investment.regular_payment * num_payments
        + (IF /\ contract_data.return_type = "Coupon"
              /\ investment.payments_transferred + num_payments
                     >= contract_data.return_months
           THEN investment.deposited
           ELSE 0)

\* C14: a payment (process_investor_payment or claim) succeeds only if its
\* amount_to_transfer, with the Coupon principal on the final period, is at
\* most the reserve bucket before the call; a payment that passes the earlier
\* checks with a larger amount fails with ContractInsufficientBalance and
\* leaves the stored investment as it was.
C14_ReserveCoversPayment ==
    \A id \in TokenIdsMinted, recipient_ok \in BOOLEAN :
        LET investment == investments[id]
            n  == calculate_claimable_payments(now, investment, contract_data.return_months)
            rp == process_investor_payment(Stored, now, FALSE, id, recipient_ok)
            rc == claim(Stored, now, FALSE, id, recipient_ok)
        IN  /\ rp.err = "Ok" => PaymentDue(investment, 1) <= balances.reserve
            /\ rc.err = "Ok" => PaymentDue(investment, n) <= balances.reserve
            /\ /\ validate_investment_payment(now, investment) = "Ok"
               /\ PaymentDue(investment, 1) > balances.reserve
               => /\ rp.err = "ContractInsufficientBalance"
                  /\ rp.st.investments = investments
                  /\ rp.st.claims_map = claims_map
            /\ /\ validate_claim(now, investment) = "Ok"
               /\ n > 0
               /\ PaymentDue(investment, n) > balances.reserve
               => /\ rc.err = "ContractInsufficientBalance"
                  /\ rc.st.investments = investments
                  /\ rc.st.claims_map = claims_map

\* C14 witness: the final period of a Coupon investment is due, the reserve
\* covers the regular payment but not the principal with it, and both the
\* owner's payment and the claim are refused.
C14_Witness ==
    \E id \in TokenIdsMinted :
        /\ contract_data.return_type = "Coupon"
        /\ investments[id].payments_transferred = contract_data.return_months - 1
        /\ investments[id].regular_payment <= balances.reserve
        /\ balances.reserve < investments[id].regular_payment + investments[id].deposited
        /\ process_investor_payment(Stored, now, FALSE, id, TRUE).err
               = "ContractInsufficientBalance"
        /\ claim(Stored, now, FALSE, id, TRUE).err = "ContractInsufficientBalance"

\* Amounts around the project balance.
BoundaryAmounts == {-1, 0, balances.project - 1, balances.project, balances.project + 1}

PrincipalPaid(investment) ==
    IF investment.status = "Finished" /\ contract_data.return_type = "Coupon"
    THEN investment.deposited
    ELSE 0

\* A step that pays id: its payments_transferred changes.
PaysInvestment(id) ==
    /\ id \in DOMAIN investments'
    /\ investments'[id].payments_transferred # investments[id].payments_transferred

\* C16: the payment that brings payments_transferred to return_months sets
\* the status to Finished and, for a Coupon contract, transfers the regular
\* payment times the batch size plus the deposited principal, exactly once,
\* adding the same to paid; for a ReverseLoan contract it transfers only the
\* regular payments. No payment before the final one includes the principal.
C16_FinalPaymentAndPrincipal ==
    /\ [](\A id \in TokenIdsMinted :
             /\ investments[id].paid
                    = investments[id].regular_payment * investments[id].payments_transferred
                      + PrincipalPaid(investments[id])
             /\ investments[id].status = "Finished"
                    <=> investments[id].payments_transferred = contract_data.return_months)
    /\ [][\A id \in TokenIdsMinted :
             PaysInvestment(id) =>
                 LET batch   == investments'[id].payments_transferred
                                    - investments[id].payments_transferred
                     final   == investments'[id].payments_transferred
                                    = contract_data.return_months
                     regular == investments[id].regular_payment * batch
                     amount  == IF final /\ contract_data.return_type = "Coupon"
                                THEN regular + investments[id].deposited
                                ELSE regular
                 IN  /\ batch > 0
                     /\ final <=> investments'[id].status = "Finished"
                     /\ ~final => investments'[id].status = "CashFlowing"
                     /\ investments'[id].paid = investments[id].paid + amount
                     /\ token_balance'["user"] = token_balance["user"] + amount
                     /\ token_balance'["contract"] = token_balance["contract"] - amount
                     /\ balances'.payments = balances.payments + amount
                     /\ balances'.reserve = balances.reserve - amount]_vars

\* C16 witness: a Finished Coupon investment, paid all its regular payments
\* and its principal, once.
C16_Witness ==
    \E id \in TokenIdsMinted :
        /\ contract_data.return_type = "Coupon"
        /\ investments[id].status = "Finished"
        /\ investments[id].paid
               = investments[id].regular_payment * contract_data.return_months
                 + investments[id].deposited
        /\ balances.payments >= investments[id].paid
        /\ token_balance["user"] >= investments[id].paid

\* C17: every stored investment has payments_transferred <= return_months in
\* every reachable state, and its paid never decreases from one state to the
\* next, whatever the interleaving of owner payments and investor claims.
C17_CounterBoundedPaidMonotone ==
    /\ [](\A id \in TokenIdsMinted :
             /\ investments[id].payments_transferred <= contract_data.return_months
             /\ investments[id].payments_transferred >= 0
             /\ investments[id].paid >= 0)
    /\ [][\A id \in TokenIdsMinted :
             /\ id \in DOMAIN investments'
             /\ investments'[id].paid >= investments[id].paid
             /\ investments'[id].payments_transferred
                    >= investments[id].payments_transferred]_vars

\* C17 witness: two investments, one paid every period and one paid some,
\* with all the periods that remain for the second due now.
C17_Witness ==
    \E id, other \in TokenIdsMinted :
        /\ investments[id].payments_transferred = contract_data.return_months
        /\ investments[other].payments_transferred > 0
        /\ investments[other].payments_transferred < contract_data.return_months
        /\ investments[other].paid > 0
        /\ calculate_claimable_payments(now, investments[other],
                                        contract_data.return_months)
               + investments[other].payments_transferred = contract_data.return_months

\* The place of a status in the order {Blocked, Claimable} -> CashFlowing ->
\* Finished.
StatusRank(status) ==
    CASE status \in {"Blocked", "Claimable"} -> 0
      [] status = "CashFlowing"              -> 1
      [] status = "Finished"                 -> 2

\* C18: a status only moves forward in the order {Blocked, Claimable} ->
\* CashFlowing -> Finished: an investment is created Blocked iff
\* claim_block_days > 0 and Claimable otherwise, a Blocked investment never
\* becomes Claimable nor a Claimable one Blocked, and no stored investment
\* goes from CashFlowing or Finished back to an earlier status.
C18_StatusMovesForward ==
    /\ [](\A id \in TokenIdsMinted :
             /\ investments[id].status \in {"Blocked", "Claimable", "CashFlowing", "Finished"}
             /\ investments[id].status = "Blocked" => contract_data.claim_block_days > 0
             /\ investments[id].status = "Claimable" => contract_data.claim_block_days = 0)
    /\ [][/\ \A id \in DOMAIN investments' \ DOMAIN investments :
                investments'[id].status
                    = IF contract_data.claim_block_days > 0 THEN "Blocked" ELSE "Claimable"
          /\ \A id \in TokenIdsMinted :
                /\ id \in DOMAIN investments'
                /\ StatusRank(investments'[id].status) >= StatusRank(investments[id].status)
                /\ StatusRank(investments'[id].status) = 0
                       => investments'[id].status = investments[id].status]_vars

\* C18 witness: an investment still Blocked after its claimable_ts has passed,
\* beside one that has been paid.
C18_Witness ==
    \E id, other \in TokenIdsMinted :
        /\ investments[id].status = "Blocked"
        /\ now >= investments[id].claimable_ts
        /\ investments[other].status \in {"CashFlowing", "Finished"}

\* Parameters a deployer may pass, negative amounts and an unknown return
\* type among them.
DeployParams ==
    [i_rate : InterestRates, claim_block_days : BlockDays,
     goal : Goals \cup {-1}, return_type : ReturnTypes \cup {3},
     return_months : ReturnMonthsOf, min_per_investment : MinPerInvest \cup {-1}]

\* The error the constructor is said to report for params; "Ok" when every
\* parameter is valid.
ConstructorErrorClaimed(params) ==
    IF params.i_rate = 0 THEN "InterestRateMustBeGreaterThanZero"
    ELSE IF params.goal <= 0 THEN "GoalMustBeGreaterThanZero"
    ELSE IF params.return_months = 0 THEN "ReturnMonthsMustBeGreaterThanZero"
    ELSE IF params.min_per_investment <= 0 THEN "MinPerInvestmentMustBeGreaterThanZero"
    ELSE IF params.return_type \notin {1, 2} THEN "UnsupportedReturnType"
    ELSE "Ok"

\* C19: the constructor rejects, storing no ContractData and no owner, the
\* first failing parameter in the order i_rate == 0, goal <= 0,
\* return_months == 0, min_per_investment <= 0 and then return_type not in
\* {1, 2}; when it succeeds the stored state is Active.
C19_ConstructorOrder ==
    /\ ~Constructed =>
          /\ owner = "none"
          /\ \A params \in DeployParams :
                LET r == constructor(Stored, params)
                IN  /\ r.err = ConstructorErrorClaimed(params)
                    /\ r.err # "Ok" => /\ r.st = Stored
                                       /\ r.st.contract_data = NoData
                                       /\ r.st.owner = "none"
                    /\ r.err = "Ok" => /\ r.st.contract_data.state = "Active"
                                       /\ r.st.owner = "admin"
    /\ Constructed => owner = "admin"

\* C19 witness: a contract just constructed with valid parameters, Active,
\* with an owner and nothing else stored.
C19_Witness ==
    /\ Constructed
    /\ contract_data.state = "Active"
    /\ ConstructorErrorClaimed(
           [i_rate |-> contract_data.interest_rate,
            claim_block_days |-> contract_data.claim_block_days,
            goal |-> contract_data.goal,
            return_type |-> IF contract_data.return_type = "Coupon" THEN 2 ELSE 1,
            return_months |-> contract_data.return_months,
            min_per_investment |-> contract_data.min_per_investment]) = "Ok"
    /\ owner = "admin"
    /\ investments = <<>>
    /\ balances = ContractBalance_new

\* The investments a step creates.
TokenIdsCreated == DOMAIN investments' \ DOMAIN investments

\* C20: a successful invest creates an investment with deposited = the reserve
\* and investable portions of the split (commission excluded),
\* accumulated_interests = floor(floor(deposited * interest_rate / 100) / 100),
\* total = deposited + accumulated_interests, regular_payment =
\* floor(accumulated_interests / return_months) for Coupon and
\* floor(total / return_months) for ReverseLoan, claimable_ts = now +
\* claim_block_days * SECONDS_IN_DAY, and last_transfer_ts = 0, paid = 0,
\* payments_transferred = 0.
C20_NewInvestment ==
    [][\A id \in TokenIdsCreated :
          LET investment == investments'[id]
              to_reserve == balances'.reserve - balances.reserve
              to_project == balances'.project - balances.project
              interests  == ((investment.deposited * contract_data.interest_rate) \div 100)
                                \div 100
          IN  /\ to_reserve > 0 /\ to_project > 0
              /\ investment.deposited = to_reserve + to_project
              /\ investment.commission = balances'.comission - balances.comission
              /\ investment.accumulated_interests = interests
              /\ investment.total = investment.deposited + interests
              /\ contract_data.return_type = "Coupon"
                     => investment.regular_payment
                            = interests \div contract_data.return_months
              /\ contract_data.return_type = "ReverseLoan"
                     => investment.regular_payment
                            = investment.total \div contract_data.return_months
              /\ investment.claimable_ts
                     = now + contract_data.claim_block_days * SECONDS_IN_DAY
              /\ investment.last_transfer_ts = 0
              /\ investment.paid = 0
              /\ investment.payments_transferred = 0
              /\ investment.token_id = id]_vars

\* C20 witness: the first investment of a ReverseLoan contract with a block
\* of 7 days, made after the ledger has advanced, with nothing else done since.
C20_Witness ==
    /\ Constructed
    /\ contract_data.return_type = "ReverseLoan"
    /\ contract_data.claim_block_days = 7
    /\ now > 0
    /\ DOMAIN investments = {0}
    /\ investments[0].claimable_ts = now + 7 * SECONDS_IN_DAY
    /\ investments[0].deposited = balances.reserve + balances.project
    /\ investments[0].accumulated_interests > 0
    /\ investments[0].regular_payment
           = investments[0].total \div contract_data.return_months
    /\ investments[0].paid = 0

\* The periods an investment is said to be eligible for at a timestamp:
\* elapsed months since claimable_ts plus one while last_transfer_ts is 0,
\* elapsed months since last_transfer_ts afterwards.
EligibleClaimed(timestamp, investment) ==
    IF investment.last_transfer_ts = 0
    THEN ((timestamp - investment.claimable_ts) \div (30 * SECONDS_IN_DAY)) + 1
    ELSE (timestamp - investment.last_transfer_ts) \div (30 * SECONDS_IN_DAY)

\* A return_months large enough not to cap the periods of the examples.
ManyMonths == 12

\* C21: calculate_claimable_payments returns min(eligible, return_months -
\* payments_transferred), where eligible = floor((now - claimable_ts) /
\* SECONDS_IN_MONTH) + 1 while last_transfer_ts == 0 and floor((now -
\* last_transfer_ts) / SECONDS_IN_MONTH) otherwise; a first claim 65 days
\* after claimable_ts is eligible for 3 periods and a first claim exactly at
\* claimable_ts for 1.
C21_ClaimablePaymentsFormula ==
    \A id \in TokenIdsMinted :
        LET investment == investments[id]
            remaining  == contract_data.return_months - investment.payments_transferred
            late       == investment.claimable_ts + 65 * SECONDS_IN_DAY
        IN  /\ validate_claim(now, investment) = "Ok" =>
                  calculate_claimable_payments(now, investment, contract_data.return_months)
                      = Min(EligibleClaimed(now, investment), remaining)
            /\ investment.last_transfer_ts = 0 /\ investment.payments_transferred = 0 =>
                  /\ calculate_claimable_payments(late, investment, ManyMonths) = 3
                  /\ calculate_claimable_payments(late, investment,
                                                  contract_data.return_months)
                         = Min(3, contract_data.return_months)
                  /\ calculate_claimable_payments(investment.claimable_ts, investment,
                                                  contract_data.return_months) = 1

\* C21 witness: a first claim two months after claimable_ts is due three
\* periods, beside an investment paid a month ago that is due one.
C21_Witness ==
    \E id, other \in TokenIdsMinted :
        /\ investments[id].payments_transferred = 0
        /\ now = investments[id].claimable_ts + 2 * SECONDS_IN_MONTH
        /\ calculate_claimable_payments(now, investments[id], contract_data.return_months) = 3
        /\ investments[other].last_transfer_ts # 0
        /\ now - investments[other].last_transfer_ts >= SECONDS_IN_MONTH
        /\ calculate_claimable_payments(now, investments[other],
                                        contract_data.return_months) = 1

\* The results of invest, process_investor_payment, single_withdrawn and
\* claim, called in the current state with the pause as given.
GuardedCallResults(is_paused) ==
    {invest(Stored, now, is_paused, amount, recipient_ok) :
        amount \in InvestAmounts, recipient_ok \in BOOLEAN}
    \cup {process_investor_payment(Stored, now, is_paused, token_id, recipient_ok) :
             token_id \in TokenIds, recipient_ok \in BOOLEAN}
    \cup {single_withdrawn(Stored, is_paused, amount, recipient_ok) :
             amount \in WithdrawAmounts, recipient_ok \in BOOLEAN}
    \cup {claim(Stored, now, is_paused, token_id, recipient_ok) :
             token_id \in TokenIds, recipient_ok \in BOOLEAN}

\* C22: while the contract is paused, invest, process_investor_payment,
\* single_withdrawn and claim each fail and leave all stored state and the
\* token balances unchanged; pausing and unpausing change nothing else, so
\* after unpause the four behave as before the pause.
C22_PauseBlocksAndRestores ==
    /\ [](Constructed =>
             \A r \in GuardedCallResults(TRUE) : r.err = "EnforcedPause" /\ r.st = Stored)
    /\ [][/\ paused /\ paused' =>
                /\ investments' = investments
                /\ contract_data' = contract_data
                /\ token_balance'["user"] = token_balance["user"]
                /\ token_balance'["project"] = token_balance["project"]
                /\ balances'.payments = balances.payments
                /\ balances'.project_withdrawals = balances.project_withdrawals
                /\ balances'.received_so_far = balances.received_so_far
          /\ paused' # paused =>
                UNCHANGED <<contract_data, owner, balances, investments, claims_map,
                            token_balance, now>>]_vars

\* C22 witness: the contract is paused in a state where an invest, an owner
\* payment, a withdrawal and a claim would each succeed without the pause.
C22_Witness ==
    /\ paused
    /\ invest(Stored, now, FALSE, SmallDeposit, TRUE).err = "Ok"
    /\ invest(Stored, now, paused, SmallDeposit, TRUE).err = "EnforcedPause"
    /\ balances.project > 0
    /\ single_withdrawn(Stored, FALSE, balances.project, TRUE).err = "Ok"
    /\ single_withdrawn(Stored, paused, balances.project, TRUE).err = "EnforcedPause"
    /\ \E id \in TokenIdsMinted :
          /\ process_investor_payment(Stored, now, FALSE, id, TRUE).err = "Ok"
          /\ process_investor_payment(Stored, now, paused, id, TRUE).err = "EnforcedPause"
          /\ claim(Stored, now, FALSE, id, TRUE).err = "Ok"
          /\ claim(Stored, now, paused, id, TRUE).err = "EnforcedPause"

\* The contract error code of an error: the Error enum of validation.rs, and
\* 200 for the non-existent-token error of the NFT base.
ErrorCode(err) ==
    CASE err = "AddressInsufficientBalance"                   -> 1
      [] err = "ContractInsufficientBalance"                  -> 2
      [] err = "AmountLessThanMinimum"                        -> 5
      [] err = "InterestRateMustBeGreaterThanZero"            -> 6
      [] err = "GoalMustBeGreaterThanZero"                    -> 7
      [] err = "UnsupportedReturnType"                        -> 8
      [] err = "ReturnMonthsMustBeGreaterThanZero"            -> 9
      [] err = "MinPerInvestmentMustBeGreaterThanZero"        -> 10
      [] err = "AddressHasNotInvested"                        -> 14
      [] err = "AddressInvestmentIsNotClaimableYet"           -> 15
      [] err = "AddressInvestmentIsFinished"                  -> 16
      [] err = "AddressInvestmentNextTransferNotClaimableYet" -> 17
      [] err = "ProjectBalanceInsufficientAmount"             -> 24
      [] err = "RecipientCannotReceivePayment"                -> 28
      [] err = "InvalidPaymentData"                           -> 29
      [] err = "WouldExceedGoal"                              -> 30
      [] err = "GoalAlreadyReached"                           -> 31
      [] err = "AmountToInvestMustBeGreaterThanZero"          -> 32
      [] err = "NonExistentToken"                             -> 200
      [] OTHER                                                -> 0

\* A token id far from any the contract mints.
UnknownTokenId == 269984

C24_WorkedExample ==
    p_amount = 100000 /\ p_decimals = 2 /\ p_rate = 500 =>
        /\ p_out.op = "calculate_rate_denominator" => p_out.value = 12
        /\ p_out.op = "from_investment" =>
              /\ p_out.amounts.amount_to_commission = 416
              /\ p_out.amounts.amount_to_reserve_fund = 5000
              /\ p_out.amounts.amount_to_invest = 94584
              /\ get_invested_amount(p_out.amounts) = 99584

\* C25 (as claimed): for every stored investment in every reachable state,
\* at any ledger time from 0 on, last_transfer_ts = 0 if and only if no
\* payment has ever been made on it (payments_transferred = 0), so the
\* never-paid branches of the month-gate and of calculate_claimable_payments
\* are taken only for investments that were never paid.
C25_ZeroMeansNeverPaid ==
    \A id \in TokenIdsMinted :
        /\ investments[id].last_transfer_ts = 0
               <=> investments[id].payments_transferred = 0
        /\ investments[id].payments_transferred > 0 =>
              /\ now - investments[id].last_transfer_ts < SECONDS_IN_MONTH =>
                    validate_investment_payment(now, investments[id]) # "Ok"
              /\ validate_claim(now, investments[id]) = "Ok" =>
                    calculate_claimable_payments(now, investments[id],
                                                 contract_data.return_months)
                        = Min((now - investments[id].last_transfer_ts)
                                  \div SECONDS_IN_MONTH,
                              contract_data.return_months
                                  - investments[id].payments_transferred)

\* What a call adds to each field of the ContractBalance.
BalanceDelta(r) ==
    [field \in DOMAIN balances |-> r.st.balances[field] - balances[field]]

\* No change in any field.
NoDelta == [field \in DOMAIN balances |-> 0]

\* C26: each successful ledger operation changes only its own buckets and the
\* matching audit total, by exactly the operation amount, and leaves every
\* other ContractBalance field unchanged: a payment does reserve -= a,
\* payments += a; single_withdrawn does project -= a, project_withdrawals += a;
\* add_company_transfer does reserve += a, reserve_contributions += a;
\* move_funds_to_the_reserve does project -= a, reserve += a,
\* moved_from_project_to_reserve += a, the bucket sum unchanged; invest does
\* comission += c, reserve += r, project += i, received_so_far += r + i.
C26_OperationFrame ==
    Constructed =>
        /\ \A id \in TokenIdsMinted :
              LET p  == process_investor_payment(Stored, now, FALSE, id, TRUE)
                  c  == claim(Stored, now, FALSE, id, TRUE)
                  ap == p.st.token_balance["user"] - token_balance["user"]
                  ac == c.st.token_balance["user"] - token_balance["user"]
              IN  /\ p.err = "Ok" =>
                        /\ ap > 0
                        /\ BalanceDelta(p) = [NoDelta EXCEPT !.reserve = -ap, !.payments = ap]
                  /\ c.err = "Ok" =>
                        /\ ac > 0
                        /\ BalanceDelta(c) = [NoDelta EXCEPT !.reserve = -ac, !.payments = ac]
        /\ \A a \in WithdrawAmounts :
              LET w == single_withdrawn(Stored, FALSE, a, TRUE)
              IN  w.err = "Ok" =>
                      /\ BalanceDelta(w)
                             = [NoDelta EXCEPT !.project = -a, !.project_withdrawals = a]
                      /\ w.st.token_balance["project"] = token_balance["project"] + a
        /\ \A a \in TransferAmounts :
              LET t == add_company_transfer(Stored, a, TRUE)
              IN  t.err = "Ok" =>
                      /\ BalanceDelta(t)
                             = [NoDelta EXCEPT !.reserve = a, !.reserve_contributions = a]
                      /\ t.st.token_balance["owner"] = token_balance["owner"] - a
        /\ \A a \in MoveAmounts \cup {-1, 1} :
              LET m == move_funds_to_the_reserve(Stored, a)
              IN  m.err = "Ok" =>
                      /\ BalanceDelta(m)
                             = [NoDelta EXCEPT !.project = -a, !.reserve = a,
                                               !.moved_from_project_to_reserve = a]
                      /\ ContractBalance_sum(m.st.balances) = ContractBalance_sum(balances)
                      /\ m.st.token_balance = token_balance
        /\ \A a \in InvestAmounts :
              LET v  == invest(Stored, now, FALSE, a, TRUE)
                  id == sequential_mint(Stored)
              IN  v.err = "Ok" =>
                      LET c == v.st.investments[id].commission
                          r == a \div 20
                          i == v.st.investments[id].deposited - r
                      IN  /\ c >= 0 /\ r > 0 /\ i > 0
                          /\ BalanceDelta(v)
                                 = [NoDelta EXCEPT !.comission = c, !.reserve = r,
                                                   !.project = i, !.received_so_far = r + i]

\* C26 witness: every kind of operation has succeeded at least once, and a
\* further payment, withdrawal, transfer and move can be made.
C26_Witness ==
    /\ balances.received_so_far > 0
    /\ balances.payments > 0
    /\ balances.project_withdrawals > 0
    /\ balances.reserve_contributions > 0
    /\ balances.moved_from_project_to_reserve > 0
    /\ balances.comission > 0
    /\ \E id \in TokenIdsMinted :
          process_investor_payment(Stored, now, FALSE, id, TRUE).err = "Ok"
    /\ move_funds_to_the_reserve(Stored, 1).err = "Ok"

\* C27: in every reachable state the contract state is FundsReached if and
\* only if received_so_far >= goal: invest switches the state to FundsReached
\* in the same operation in which received_so_far first reaches the goal, and
\* never otherwise.
C27_FundsReachedIffGoal ==
    /\ [](Constructed =>
             (contract_data.state = "FundsReached"
                  <=> balances.received_so_far >= contract_data.goal))
    /\ [][Constructed /\ contract_data'.state # contract_data.state =>
             /\ contract_data.state = "Active"
             /\ contract_data'.state = "FundsReached"
             /\ balances.received_so_far < contract_data.goal
             /\ balances'.received_so_far >= contract_data.goal
             /\ Cardinality(DOMAIN investments') = Cardinality(DOMAIN investments) + 1
             /\ token_balance'["user"] < token_balance["user"]]_vars

\* C27 witness: the second deposit has brought received_so_far to the goal
\* and the contract is FundsReached.
C27_Witness ==
    /\ Constructed
    /\ contract_data.state = "FundsReached"
    /\ balances.received_so_far = contract_data.goal
    /\ Cardinality(DOMAIN investments) = 2

\* The investments a step creates or pays.
TokenIdsWritten ==
    {id \in DOMAIN investments' :
        id \notin DOMAIN investments \/ investments'[id] # investments[id]}

\* C28: after every successful invest, process_investor_payment or claim on
\* an investment, the claims map entry for its token id is (next_transfer_ts,
\* amount_to_pay) with next_transfer_ts = last_transfer_ts + SECONDS_IN_MONTH
\* if last_transfer_ts > 0 and the time of the operation + SECONDS_IN_MONTH
\* otherwise, and amount_to_pay = regular_payment; every investment has
\* exactly one entry and the entries of other investments are untouched.
C28_ClaimsMapEntry ==
    /\ [](DOMAIN claims_map = DOMAIN investments)
    /\ [][/\ Cardinality(TokenIdsWritten) <= 1
          /\ \A id \in TokenIdsWritten :
                /\ id \in DOMAIN claims_map'
                /\ claims_map'[id].amount_to_pay = investments'[id].regular_payment
                /\ claims_map'[id].next_transfer_ts
                       = IF investments'[id].last_transfer_ts > 0
                         THEN investments'[id].last_transfer_ts + 30 * SECONDS_IN_DAY
                         ELSE now + 30 * SECONDS_IN_DAY
          /\ \A id \in DOMAIN claims_map \ TokenIdsWritten :
                /\ id \in DOMAIN claims_map'
                /\ claims_map'[id] = claims_map[id]]_vars

\* C28 witness: two investments, the first paid at a ledger time after 0 and
\* due a month after that, the second made later and not yet paid, due a
\* month after its deposit.
C28_Witness ==
    /\ DOMAIN claims_map = {0, 1}
    /\ investments[0].last_transfer_ts > 0
    /\ claims_map[0].next_transfer_ts = investments[0].last_transfer_ts + SECONDS_IN_MONTH
    /\ investments[1].last_transfer_ts = 0
    /\ investments[1].claimable_ts > investments[0].claimable_ts
    /\ claims_map[1].next_transfer_ts
           = investments[1].claimable_ts
             - contract_data.claim_block_days * SECONDS_IN_DAY + SECONDS_IN_MONTH
    /\ claims_map[1].amount_to_pay = investments[1].regular_payment

\* The token ids whose claims map entry is due within a week of now.
DueWithinAWeek == {id \in DOMAIN claims_map : claims_map[id].next_transfer_ts <= now + 7 * SECONDS_IN_DAY}

\* D: amount_to_pay summed over the entries due within a week.
RECURSIVE AmountDue(_)
AmountDue(ids) ==
    IF ids = {}
    THEN 0
    ELSE LET id == CHOOSE x \in ids : TRUE
         IN  claims_map[id].amount_to_pay + AmountDue(ids \ {id})

\* C29 (as claimed): check_reserve_balance mutates nothing and returns
\* max(0, D - reserve), where D is the sum of amount_to_pay over all claims
\* map entries whose next_transfer_ts <= now + SECONDS_IN_WEEK; it returns 0
\* whenever reserve >= D.
C29_ReserveShortfall ==
    Constructed =>
        LET r == check_reserve_balance(Stored, now)
            D == AmountDue(DueWithinAWeek)
        IN  /\ r.err = "Ok"
            /\ r.st = Stored
            /\ r.value = IF D - balances.reserve > 0 THEN D - balances.reserve ELSE 0
            /\ balances.reserve >= D => r.value = 0

\* The stored state as it would be if investment id did not exist.
WithoutInvestment(id) ==
    [Stored EXCEPT
        !.investments = [x \in DOMAIN investments \ {id} |-> investments[x]],
        !.claims_map  = [x \in DOMAIN claims_map \ {id} |-> claims_map[x]]]

\* C30 (as claimed): an investment whose status is Finished contributes
\* nothing to the result of check_reserve_balance: once all its payments were
\* made, the shortfall reported, now or a month from now, is the same as if
\* that investment did not exist.
C30_FinishedNotCounted ==
    Constructed =>
        \A id \in TokenIdsMinted :
            investments[id].status = "Finished" =>
                \A timestamp \in {now, now + SECONDS_IN_MONTH} :
                    check_reserve_balance(Stored, timestamp).value
                        = check_reserve_balance(WithoutInvestment(id), timestamp).value

(***************************************************************************)
(* C31                                                                     *)
(***************************************************************************)
\* C31: in every reachable state the reserve, project and comission buckets
\* are all >= 0, whatever signed amounts the owner and the investors pass
\* (zero and negative amounts to move_funds_to_the_reserve, single_withdrawn
\* and add_company_transfer included).
C31_BucketsNonNegative ==
    /\ balances.reserve >= 0
    /\ balances.project >= 0
    /\ balances.comission >= 0

(***************************************************************************)
(* C32                                                                     *)
(***************************************************************************)
RECURSIVE SumOver(_, _)
\* The sum of f over the token ids of `ids`.
SumOver(f, ids) ==
    IF ids = {} THEN 0
    ELSE LET id == CHOOSE x \in ids : TRUE
         IN  f[id] + SumOver(f, ids \ {id})

\* C32: the ledger and the investment records agree in every reachable
\* state: payments is the sum of paid, received_so_far the sum of deposited
\* and the comission bucket the sum of commission, over all investments.
C32_LedgerAgreesWithInvestments ==
    LET ids == DOMAIN investments
    IN  /\ balances.payments
             = SumOver([id \in ids |-> investments[id].paid], ids)
        /\ balances.received_so_far
             = SumOver([id \in ids |-> investments[id].deposited], ids)
        /\ balances.comission
             = SumOver([id \in ids |-> investments[id].commission], ids)

\* Two investments are stored, each of them has been paid, by claim and by
\* process_investor_payment, and one of them is Finished.
C32_Witness ==
    /\ Cardinality(DOMAIN investments) = 2
    /\ \A id \in DOMAIN investments : investments[id].paid > 0
    /\ \E id \in DOMAIN investments : investments[id].status = "Finished"
    /\ \E id \in DOMAIN investments : investments[id].payments_transferred = 1
    /\ balances.comission > 0

(***************************************************************************)
(* C33                                                                     *)
(***************************************************************************)
\* C33 (as claimed): payments never run ahead of schedule.  For every
\* investment in every reachable state, under any interleaving of
\* process_investor_payment and claim, payments_transferred
\* <= floor((now - claimable_ts) / SECONDS_IN_MONTH) + 1 whenever
\* payments_transferred > 0, and payments_transferred = 0 while
\* now < claimable_ts.
C33_NeverAheadOfSchedule ==
    \A id \in TokenIdsMinted :
        LET investment == investments[id]
        IN  /\ investment.payments_transferred > 0 =>
                  /\ now >= investment.claimable_ts
                  /\ investment.payments_transferred
                        <= ((now - investment.claimable_ts) \div SECONDS_IN_MONTH) + 1
            /\ now < investment.claimable_ts => investment.payments_transferred = 0

(***************************************************************************)
(* C34                                                                     *)
(***************************************************************************)
\* What a Finished investment has been paid, as claimed: return_months
\* regular payments, and the deposit on top of them for Coupon.
PaidWhenFinished(investment) ==
    IF contract_data.return_type = "Coupon"
    THEN investment.regular_payment * contract_data.return_months + investment.deposited
    ELSE investment.regular_payment * contract_data.return_months

\* C34: an investor is never paid more than the investment's total gains:
\* paid <= total (= deposited + accumulated_interests) in every reachable
\* state, and a Finished investment has been paid regular_payment *
\* return_months for ReverseLoan and regular_payment * return_months +
\* deposited for Coupon.
C34_PaidWithinTotal ==
    \A id \in TokenIdsMinted :
        LET investment == investments[id]
        IN  /\ investment.total = investment.deposited + investment.accumulated_interests
            /\ investment.paid <= investment.total
            /\ investment.status = "Finished" =>
                  investment.paid = PaidWhenFinished(investment)

\* An investment is Finished and another one is paid in part; the Finished
\* one was paid less than its total, the division of regular_payment having
\* dropped a remainder.
C34_Witness ==
    \E id, other \in TokenIdsMinted :
        /\ investments[id].status = "Finished"
        /\ investments[id].paid = PaidWhenFinished(investments[id])
        /\ investments[id].paid < investments[id].total
        /\ investments[other].status = "CashFlowing"
        /\ investments[other].paid > 0

(***************************************************************************)
(* C35                                                                     *)
(***************************************************************************)
\* C35: status and payment counter agree for every stored investment in
\* every reachable state: the status is Blocked or Claimable iff
\* payments_transferred = 0, CashFlowing iff 0 < payments_transferred <
\* return_months, and Finished iff payments_transferred = return_months.
C35_StatusAgreesWithCounter ==
    \A id \in TokenIdsMinted :
        LET investment == investments[id]
            paid_months == investment.payments_transferred
        IN  /\ investment.status \in {"Blocked", "Claimable"} <=> paid_months = 0
            /\ investment.status = "CashFlowing"
                  <=> (0 < paid_months /\ paid_months < contract_data.return_months)
            /\ investment.status = "Finished"
                  <=> paid_months = contract_data.return_months

\* In a contract that blocks claims at first (investments start Blocked),
\* one investment has been paid several periods and is still CashFlowing
\* and the other one has been paid to the end.
C35_Witness ==
    \E id, other \in TokenIdsMinted :
        /\ contract_data.claim_block_days > 0
        /\ investments[id].status = "CashFlowing"
        /\ investments[id].payments_transferred >= 2
        /\ investments[other].status = "Finished"
        /\ investments[other].payments_transferred = contract_data.return_months

(***************************************************************************)
(* C36                                                                     *)
(***************************************************************************)
\* The reserve covers what a claim of investment id would transfer now
\* (every period due, and the Coupon principal with the last one).
ReserveCovers(id) ==
    id \in DOMAIN investments =>
        validate_reserve_balance(
            PaymentDue(investments[id],
                       calculate_claimable_payments(now, investments[id],
                                                    contract_data.return_months)),
            balances) = "Ok"

\* The ledger time from which one claim pays every period investment id
\* still has to receive.
LastPeriodDue(id) ==
    IF investments[id].last_transfer_ts = 0
    THEN investments[id].claimable_ts
           + (contract_data.return_months - 1) * SECONDS_IN_MONTH
    ELSE investments[id].last_transfer_ts
           + (contract_data.return_months - investments[id].payments_transferred)
               * SECONDS_IN_MONTH

\* The clock of the model ends before the last period of investment id
\* falls due.
OutOfClock(id) == LastPeriodDue(id) > LedgerEnd

\* Investment id is stored and is Finished, or cannot be within the clock.
FinishedOrOutOfClock(id) ==
    /\ id \in DOMAIN investments
    /\ investments[id].status = "Finished" \/ OutOfClock(id)

\* One claim on a never-paid investment, made once its last period is due
\* and with a reserve that covers the whole of it, pays every period and
\* leaves it Finished.
OneClaimFinishes ==
    \A id \in TokenIdsMinted :
        LET investment == investments[id]
            r == claim(Stored, now, FALSE, id, TRUE)
        IN  (/\ investment.payments_transferred = 0
             /\ now >= investment.claimable_ts
                        + (contract_data.return_months - 1) * SECONDS_IN_MONTH
             /\ balances.reserve >= PaymentDue(investment, contract_data.return_months))
            => /\ r.err = "Ok"
               /\ r.st.investments[id].status = "Finished"
               /\ r.st.investments[id].payments_transferred = contract_data.return_months
               /\ r.st.investments[id].paid = PaidWhenFinished(investment)

\* A claim of investment id would succeed now.
ClaimEnabled(id) == ENABLED <<ClaimOf(id)>>_vars

\* C36: liveness.  If the contract ends up not paused, the clock keeps
\* advancing (the fairness of SpecLive), the reserve ends up covering each
\* due amount (the Coupon principal included) and claim is attempted
\* repeatedly (weak fairness), then every investment eventually reaches
\* Finished, as far as the clock of the model lets its last period fall
\* due; and a single claim on a never-paid investment at any time >=
\* claimable_ts + (return_months - 1) * SECONDS_IN_MONTH with sufficient
\* reserve finishes it in one step.  Weak fairness of ClaimOf(id) is stated
\* as []<>~ENABLED: an investment is claimed at most return_months times,
\* so the other way of being weakly fair, claiming for ever, does not exist.
C36_EventuallyFinished ==
    /\ [](OneClaimFinishes)
    /\ \A id \in TokenIds :
          ([]<>(~ClaimEnabled(id)) /\ <>[](~paused) /\ <>[]ReserveCovers(id))
             => [](id \in DOMAIN investments => <>FinishedOrOutOfClock(id))

\* An investment whose claims were blocked for a week has been finished by
\* one claim: no earlier payment could have been followed by the last one
\* within the clock of the model.
C36_Witness ==
    \E id \in TokenIdsMinted :
        /\ contract_data.claim_block_days > 0
        /\ investments[id].status = "Finished"
        /\ investments[id].last_transfer_ts = now
        /\ now >= investments[id].claimable_ts
                     + (contract_data.return_months - 1) * SECONDS_IN_MONTH
        /\ ~OutOfClock(id)

====
